---- MODULE Spec2Model ----
(***************************************************************************)
(* Verification model of epdoc/console-logger.                             *)
(*                                                                         *)
(* The repository holds several snapshots of one design.  The model keeps  *)
(* them apart:                                                             *)
(*   Spec10  Logger (part_005) + LoggerLine (part_010) + LoggerState       *)
(*           (state.ts, second class): lines kept in state.lines           *)
(*   Spec9   Logger (part_005) + LoggerLine (part_009, first class) +      *)
(*           LoggerState (state.ts, first class) + BufferTransport         *)
(*   SpecM   Logger (part_004) + LoggerLine (line.ts) + TransportLine      *)
(*           (transports/transport.ts): one line builder per transport     *)
(*   SpecMgr LogManager (part_003, both classes): queue and flush          *)
(*   SpecF   FileTransport (part_008): buffer, stream and readiness        *)
(*   SpecL   LoggerState.setLevel and the level test (state.ts)            *)
(*   SpecY   Style (style.ts) and ColorStyle (part_011): format, enable    *)
(*   SpecP   Logger of logger.ts: chained fragments, then a level method   *)
(*   SpecR   LogManager.start() step by step and LogManager.logger()       *)
(*   SpecT   Elapsed (elapsed.ts): measure, resetInterval, resetAll        *)
(*   SpecK   the Logger and line of Spec10 made with keepLines, with skip  *)
(*           and clearLines                                                *)
(*                                                                         *)
(* A string is a sequence of one-character strings; an escape sequence is  *)
(* one element.  join(' ') is Join below.                                  *)
(***************************************************************************)
EXTENDS Integers, Sequences, FiniteSets, TLC

(***************************************************************************)
(* Bounds of the model                                                     *)
(***************************************************************************)
MaxParts == 2
MaxLines == 1
MaxTab == 1
MaxComments == 1
MaxLogged == 2
MaxWrites == 3
MaxClock == 4
MaxStarts == 3

(***************************************************************************)
(* Log levels (logger.ts)                                                  *)
(***************************************************************************)
logLevel == [trace |-> 1, debug |-> 3, verbose |-> 5, info |-> 7, warn |-> 8, error |-> 9]

LevelNames == DOMAIN logLevel

LevelValues == {logLevel[n] : n \in LevelNames}

\* [1, 3, 5, 7, 8, 9].includes(val)
isLogLevelValue(val) == val \in {1, 3, 5, 7, 8, 9}

\* A caller's level argument: a number, a string, or undefined.  A string that
\* parses as an integer carries that integer in num (asInt).
LevelArg(kind, name, num) == [kind |-> kind, name |-> name, num |-> num]

\* The result undefined (falling off the end of the function) is 0.
logLevelToValue(level) ==
    IF level.kind = "num" /\ isLogLevelValue(level.num) THEN level.num
    ELSE IF level.kind = "numstr" /\ isLogLevelValue(level.num) THEN level.num
    ELSE IF level.kind = "name" /\ level.name \in DOMAIN logLevel THEN logLevel[level.name]
    ELSE 0

getLogLevelString(val) == CHOOSE n \in LevelNames : logLevel[n] = val

(***************************************************************************)
(* Strings                                                                 *)
(***************************************************************************)
RECURSIVE Join(_)
Join(ss) ==
    IF Len(ss) = 0 THEN <<>>
    ELSE IF Len(ss) = 1 THEN ss[1]
    ELSE ss[1] \o <<" ">> \o Join(Tail(ss))

\* ' '.repeat(k), k >= 0
Repeat(c, k) == [i \in 1..k |-> c]

\* str.slice(count)
Slice(str, count) == SubSeq(str, count + 1, Len(str))

\* util.ts countTabsAtBeginningOfString
RECURSIVE countTabsAtBeginningOfString(_)
countTabsAtBeginningOfString(str) ==
    IF Len(str) > 0 /\ str[1] = "\t"
    THEN 1 + countTabsAtBeginningOfString(Tail(str))
    ELSE 0

\* str.length > length ? str.slice(0, length - 1) : str + char.repeat(length - str.length)
rightPadAndTruncate(str, length) ==
    IF Len(str) > length THEN SubSeq(str, 1, length - 1)
    ELSE str \o Repeat(" ", length - Len(str))

Upper == [trace |-> <<"T", "R", "A", "C", "E">>,
          debug |-> <<"D", "E", "B", "U", "G">>,
          verbose |-> <<"V", "E", "R", "B", "O", "S", "E">>,
          info |-> <<"I", "N", "F", "O">>,
          warn |-> <<"W", "A", "R", "N">>,
          error |-> <<"E", "R", "R", "O", "R">>]

\* `[${getLogLevelString(level).toUpperCase()}]` padded to 9
LevelTag(val) == rightPadAndTruncate(<<"[">> \o Upper[getLogLevelString(val)] \o <<"]">>, 9)

\* Does s occur in t as a contiguous substring?
Includes(t, s) == \E i \in 0..(Len(t) - Len(s)) : SubSeq(t, i + 1, i + Len(s)) = s

(***************************************************************************)
(* Style (style.ts, class Style)                                           *)
(***************************************************************************)
\* the start sequence `\u001b[${fg}m` of each style's foreground colour
styles == [text |-> "ESC[97m", h1 |-> "ESC[95m", h2 |-> "ESC[95m", h3 |-> "ESC[92m",
           _suffix |-> "ESC[90m", _elapsed |-> "ESC[90m", _levelPrefix |-> "ESC[90m", _timePrefix |-> "ESC[90m"]

StyleNames == {"h1"}

\* Style.format of a string value under a named style with a foreground colour
format(colorFlag, s, style) ==
    IF colorFlag = FALSE THEN s
    ELSE <<styles[style]>> \o s \o <<"ESC[0m">>

(***************************************************************************)
(* Text used by the callers of the model                                   *)
(***************************************************************************)
\* the arguments of a level method: none, a word, or a word behind one
\* leading tab character
CallArgs == {<<>>, << <<"first">> >>, << <<"\t", "first">> >>}

\* the arguments of a fragment method
FragArgs == {<<>>, << <<"second">> >>}

\* the trailing arguments of emit
EmitArgs == {<<>>, << <<"last">> >>}

\* "HH:mm:ss" of the moment of the call, and the timer's "{total} ({interval})"
TimeStr == <<"12:00:00">>

ElapsedStr == <<"0.001 (0.001)">>

\* String(obj) of an object without toString
ObjectStr == <<"[object Object]">>

\* JSON.stringify(arg, null, 2) of the one object the callers pass
DataStr == <<"{}">>

\* the one comment the callers add
CommentStr == <<"note">>

NoError == [thrown |-> FALSE, msg |-> <<>>]

Error(msg) == [thrown |-> TRUE, msg |-> msg]

EmitFirst == <<"Emit the previous log message before logging a new one">>

(***************************************************************************)
(* State                                                                   *)
(***************************************************************************)
VARIABLES
    \* LoggerState: _loggerLevel, _levelPrefix, _timePrefix, _keepLines, _lines,
    \* and the Style's _colorFormat
    loggerLevel, levelPrefix, timePrefix, keepLines, lines, colorFormat,
    \* what console.log received
    console,
    \* BufferTransport._buffer of the state's transport (Spec9)
    buffer,
    \* the Logger's LoggerLine: [parts, suffix, tab, enabled, showElapsed, level]
    line,
    \* the outcome of the last Logger call: [thrown, msg]
    err,
    \* the caller holds the line returned by a level method
    handle,
    \* history of the caller's requests: the line being composed, as asked for
    \* [open, lvl, thr, req, cmt, elapsed], and the lines that were due
    asked, due,
    \* the name of the level the caller last set with a valid argument (want),
    \* and the last isEnabledFor query [made, arg, res] with the level that was
    \* set when it was made (at), and the argument of the last setLevel call
    \* (set)
    answer,
    \* the kind of the last call made: "new", "level", "frag" (plain,
    \* stylize, indent, tab, data), "emit", "set" (LoggerState.setLevel),
    \* "clear" (clearLines) or "other"
    last

VARIABLES
    \* the TransportLine of each transport of a multi-transport LoggerLine:
    \* [thr, show, level, enabled, parts, suffix, indent]
    tls,
    \* what each transport was given to write
    written,
    \* LoggerLine._showElapsed of the multi-transport LoggerLine
    elapsedM

varsM == <<tls, written, elapsedM>>

VARIABLES
    \* which LogManager class of part_003 is running: 1 (lines 115-640) or
    \* 2 (lines 690-1130)
    mgrVer,
    \* LogManager: _running, _allTransportsReady (_runOpts.allTransportsReady),
    \* logLevel (_showOpts.levelThreshold in the second class), _transports
    \* (transport ids in list order) and _queue (messages [id, level, lg,
    \* emitter], lg being the message's _logLevel)
    running, allTransportsReady, mgrLevel, mgrTransports, queue,
    \* LoggerTransport._bReady of each transport
    ready,
    \* what meetsLogThreshold answers for an undefined threshold
    meetsUndefined,
    \* the ids of the messages each transport was given to write
    sent,
    \* history: the number of messages logParams has queued, the decisions
    \* of the flush made by the last call [msg, to], and the last call made
    logged, flushLog, mgrLast,
    \* the transport the last call was about, 0 when it was about none
    mgrArg

varsMgr == <<mgrVer, running, allTransportsReady, mgrLevel, mgrTransports, queue,
             ready, meetsUndefined, sent, logged, flushLog, mgrLast,
             mgrArg>>

varsS == <<loggerLevel, levelPrefix, timePrefix, keepLines, lines, colorFormat,
           console, buffer, line, err, handle, asked, due, answer, last>>

\* the LoggerState fields no operation of a line writes
showVars == <<loggerLevel, levelPrefix, timePrefix, keepLines, colorFormat>>

\* LoggerState._tab / _tabSize
tabSize == 2

\* a LoggerLine after construction: _level = logLevel.info, nothing else set
NewLine == [parts |-> <<>>, suffix |-> <<>>, tab |-> <<>>, enabled |-> FALSE,
            showElapsed |-> FALSE, level |-> logLevel.info]

NothingAsked == [open |-> FALSE, lvl |-> logLevel.info, thr |-> logLevel.info,
                 req |-> <<>>, cmt |-> <<>>, elapsed |-> FALSE]

\* the level a caller names with a valid argument, "" with an invalid one
NamedLevel(a) ==
    IF a.kind = "name" /\ a.name \in LevelNames THEN a.name
    ELSE IF a.kind \in {"num", "numstr"} /\ a.num \in LevelValues
         THEN CHOOSE n \in LevelNames : logLevel[n] = a.num
    ELSE ""

NoAnswer == [made |-> FALSE, arg |-> LevelArg("undefined", "", 0),
             want |-> "info", at |-> "info", res |-> FALSE,
             set |-> LevelArg("undefined", "", 0)]

\* The fragments a call asks for, by the documented composition: an indent of
\* n * tabSize - 1 spaces, then the text
AskedOfArgs(args) ==
    LET count == IF Len(args) > 0 THEN countTabsAtBeginningOfString(args[1]) ELSE 0
        rest == IF Len(args) > 0 THEN <<Slice(args[1], count)>> \o Tail(args) ELSE <<>>
    IN  (IF count > 0 THEN <<Repeat(" ", count * tabSize - 1)>> ELSE <<>>)
        \o (IF Len(rest) > 0 THEN <<Join(rest)>> ELSE <<>>)

\* The text due for a line: time prefix, level prefix, the fragments in call
\* order, the trailing arguments of emit, the comments, the elapsed annotation
DueText(a, args, withElapsed) ==
    Join((IF timePrefix THEN <<TimeStr>> ELSE <<>>)
         \o (IF levelPrefix THEN <<LevelTag(a.lvl)>> ELSE <<>>)
         \o a.req
         \o args
         \o (IF Len(a.cmt) > 0 THEN <<Join(a.cmt)>> ELSE <<>>)
         \o (IF withElapsed THEN <<ElapsedStr>> ELSE <<>>))

\* LoggerState.setLevel: an invalid value leaves the level as it was
\* setLevel without the isLogLevelValue test
setLevel_any(cur, arg) == logLevelToValue(arg)

\* LoggerState.setLevel: the threshold after the call
setLevel(cur, arg) ==
    LET val == logLevelToValue(arg)
    IN  IF isLogLevelValue(val) THEN val ELSE cur

isEnabledFor_strict(cur, arg) == cur < logLevelToValue(arg)

\* LoggerState.isEnabledFor
isEnabledFor(cur, arg) == cur <= logLevelToValue(arg)

LevelArgs ==
    {LevelArg("name", n, 0) : n \in LevelNames \cup {"bogus"}}
    \cup {LevelArg("num", "", v) : v \in LevelValues \cup {2}}
    \cup {LevelArg("numstr", "", v) : v \in {5, 6}}
    \cup {LevelArg("undefined", "", 0)}

\* the `level` option of the constructors in the runs of the line builders
CtorLevels == {LevelArg("undefined", "", 0), LevelArg("name", "debug", 0),
               LevelArg("name", "error", 0)}

\* the show options of the constructors in the runs of the line builders
ShowOpts == {[level |-> FALSE, time |-> FALSE, color |-> TRUE],
             [level |-> TRUE, time |-> FALSE, color |-> FALSE],
             [level |-> TRUE, time |-> TRUE, color |-> FALSE]}

\* logLevel.skip of levels.ts, the sentinel below every level
skipLevel == 0

\* the levels of the level methods called in the runs of the line builders
CallLevels == {logLevel.debug, logLevel.info, logLevel.error}

(***************************************************************************)
(* TransportLine (transports/transport.ts, second part of the file)        *)
(***************************************************************************)
Transports == {1, 2}

\* the thresholds the transports of a line are constructed with
ThresholdsM == <<logLevel.info, logLevel.error>>

\* this._levelThreshold <= this._level, false for an undefined threshold
disableIfThresholdNotMet(t) ==
    [t EXCEPT !.enabled = (t.thr # 0 /\ t.thr <= t.level)]

\* new TransportLine(opts): _level is logLevel.info
NewTransportLine(thr, show) ==
    disableIfThresholdNotMet(
        [thr |-> thr, show |-> show, level |-> logLevel.info, enabled |-> FALSE,
         parts |-> <<>>, suffix |-> <<>>, indent |-> <<>>])

setLevelThresholdT(t, val) == disableIfThresholdNotMet([t EXCEPT !.thr = val])

clearT(t) == [t EXCEPT !.enabled = FALSE, !.parts = <<>>, !.suffix = <<>>]

setLevelT(t, val) == [t EXCEPT !.level = val]

addMsgPart(t, str) == [t EXCEPT !.parts = Append(@, str)]

indentT(t, n) == IF t.enabled THEN addMsgPart(t, Repeat(" ", n - 1)) ELSE t

tabT(t, n) ==
    IF t.enabled THEN [t EXCEPT !.indent = Repeat(" ", n * tabSize - 1)] ELSE t

appendMsg(t, args) == [t EXCEPT !.parts = Append(@, Join(args))]

appendSuffix(t, args) == [t EXCEPT !.suffix = Append(@, Join(args))]

stylizeT(t, style, args) == IF t.enabled THEN addMsgPart(t, Join(args)) ELSE t

addLevelPrefixT(t) == IF t.show THEN addMsgPart(t, LevelTag(t.level)) ELSE t

\* the suffix part is added whether or not there is a suffix
addSuffixT(t) == addMsgPart(t, Join(t.suffix))

\* the additions of emit and formatAsString; the runs show neither time,
\* request, session, emitter nor action, and the line has no timer
additionsT(t) == addSuffixT(addLevelPrefixT(t))

\* BaseStyle.format of a string: String(val)
formatBase(str) == str

\* the string TransportLine.emit writes
emitTextT(t) ==
    LET p == additionsT(t).parts
    IN  Join([i \in 1..Len(p) |-> formatBase(p[i])])

\* TransportLine.emit on the line itself
emitT(t) == IF t.enabled THEN clearT(additionsT(t)) ELSE t

\* no multi-transport line in use
NoM ==
    /\ tls = [t \in Transports |-> NewTransportLine(logLevel.info, FALSE)]
    /\ written = [t \in Transports |-> <<>>]
    /\ elapsedM = FALSE

VARIABLES
    \* FileTransport (part_008): _stream is not null, _buffer (the numbers of
    \* the lines held), _writable, _ready, and the inherited _bReady
    fStream, fBuffer, fWritable, fReady, fBReady,
    \* the stream: the lines it was given, whether it owes a 'drain' event,
    \* whether it has emitted 'error', and whether a once('drain') listener
    \* is registered
    fOut, fNeedDrain, fBroken, fOnce,
    \* history: the number of write() calls, whether the last call threw,
    \* the last call, whether a write() was made while there was no stream,
    \* and whether the last open()/stop()/end() completed was an open()
    fCalls, fThrown, fLast, fHeld, fOpened

varsF == <<fStream, fBuffer, fWritable, fReady, fBReady, fOut, fNeedDrain,
           fBroken, fOnce, fCalls, fThrown, fLast, fHeld, fOpened>>

(***************************************************************************)
(* Style objects: class Style (style.ts:36-107) and class ColorStyle       *)
(* (part_011:52-114) over BaseStyle (part_010:222-247).  A style rule is   *)
(* [fg, bg], 0 standing for a colour that is not given.                    *)
(***************************************************************************)
Color == [italic |-> 3, underline |-> 4, inverse |-> 7, black |-> 30,
          dark_red |-> 31, dark_green |-> 32, yellow |-> 33, dark_blue |-> 34,
          purple |-> 35, teal |-> 36, gray |-> 37, dark_gray |-> 90, red |-> 91,
          green |-> 92, orange |-> 93, blue |-> 94, magenta |-> 95, cyan |-> 96,
          white |-> 97]

isValidColor(val) == val >= Color.black /\ val <= Color.white

StyleDef(fg, bg) == [fg |-> fg, bg |-> bg]

\* the table `styles` of style.ts
defaultStyles ==
    [text |-> StyleDef(Color.white, 0), h1 |-> StyleDef(Color.magenta, 0),
     h2 |-> StyleDef(Color.magenta, 0), h3 |-> StyleDef(Color.green, 0),
     action |-> StyleDef(Color.black, Color.orange),
     label |-> StyleDef(Color.teal, 0), highlight |-> StyleDef(Color.purple, 0),
     value |-> StyleDef(Color.blue, 0), path |-> StyleDef(Color.dark_blue, 0),
     date |-> StyleDef(Color.purple, 0), warn |-> StyleDef(Color.cyan, 0),
     error |-> StyleDef(Color.dark_red, 0),
     strikethru |-> StyleDef(Color.inverse, 0),
     _elapsed |-> StyleDef(Color.dark_gray, 0),
     _levelPrefix |-> StyleDef(Color.dark_gray, 0),
     _timePrefix |-> StyleDef(Color.dark_gray, 0)]

\* the table `styles` of part_011: the same names and eight more
colorStyles ==
    [n \in DOMAIN defaultStyles \cup
           {"_reqId", "_sid", "_emitter", "_action", "_plain", "_suffix",
            "_errorPrefix", "_warnPrefix"} |->
        IF n \in DOMAIN defaultStyles THEN defaultStyles[n]
        ELSE IF n = "_reqId" THEN StyleDef(Color.orange, 0)
        ELSE IF n = "_sid" THEN StyleDef(Color.yellow, 0)
        ELSE IF n = "_emitter" THEN StyleDef(Color.green, 0)
        ELSE IF n = "_action" THEN StyleDef(Color.blue, 0)
        ELSE IF n = "_plain" THEN StyleDef(Color.white, 0)
        ELSE IF n = "_errorPrefix" THEN StyleDef(Color.dark_red, 0)
        ELSE IF n = "_warnPrefix" THEN StyleDef(Color.cyan, 0)
        ELSE StyleDef(Color.dark_gray, 0)]

\* options.styles was not given
NoTable == [n \in {} |-> StyleDef(0, 0)]

\* the tables of custom styles the constructors are given in the runs
CustomTables ==
    {[n \in {"custom"} |-> StyleDef(Color.red, 0)],
     [n \in {"custom", "h1"} |->
         IF n = "h1" THEN StyleDef(Color.green, 0) ELSE StyleDef(Color.red, Color.white)]}

\* Object.assign({}, options.styles ? options.styles : styles)
newStyles(custom, builtin) == IF custom # NoTable THEN custom ELSE builtin

\* `\u001b[${n}m`
Esc(n) == "ESC[" \o ToString(n) \o "m"

Reset == "ESC[0m"

\* the style argument of format: a name or a rule
ByName(name) == [byName |-> TRUE, name |-> name, def |-> StyleDef(0, 0)]

ByDef(def) == [byName |-> FALSE, name |-> "", def |-> def]

\* typeof style === 'string' ? this.styles[style] : style
lookup(tbl, style) ==
    IF style.byName
    THEN IF style.name \in DOMAIN tbl
         THEN [found |-> TRUE, def |-> tbl[style.name]]
         ELSE [found |-> FALSE, def |-> StyleDef(0, 0)]
    ELSE [found |-> TRUE, def |-> style.def]

TypeError == <<"TypeError: Cannot read properties of undefined (reading 'fg')">>

\* the colour wrapping of the legacy stylize (style.ts:234-258): the
\* background assigns the reset where Style.format appends it
wrap_oneReset(def, s) ==
    LET pre == (IF isValidColor(def.fg) THEN <<Esc(def.fg)>> ELSE <<>>)
               \o (IF isValidColor(def.bg) THEN <<Esc(def.bg + 10)>> ELSE <<>>)
        post == IF isValidColor(def.fg) \/ isValidColor(def.bg)
                THEN <<Reset>> ELSE <<>>
    IN  pre \o s \o post

\* pre and post of Style.format and ColorStyle.format around the text
wrap(def, s) ==
    LET pre1 == IF isValidColor(def.fg) THEN <<Esc(def.fg)>> ELSE <<>>
        post1 == IF isValidColor(def.fg) THEN <<Reset>> ELSE <<>>
        pre2 == IF isValidColor(def.bg) THEN pre1 \o <<Esc(def.bg + 10)>> ELSE pre1
        post2 == IF isValidColor(def.bg) THEN post1 \o <<Reset>> ELSE post1
    IN  pre2 \o s \o post2

\* Style.format of a string value: [thrown, out]
StyleFormat(cf, tbl, s, style) ==
    LET r == lookup(tbl, style)
    IN  IF cf = FALSE THEN [thrown |-> FALSE, out |-> s]
        ELSE IF ~r.found THEN [thrown |-> TRUE, out |-> TypeError]
        ELSE [thrown |-> FALSE, out |-> wrap(r.def, s)]

\* ColorStyle.format of a string value: BaseStyle.format, then the colours
\* of the rule when there is one
ColorStyleFormat(tbl, s, style) ==
    LET r == lookup(tbl, style)
    IN  IF ~r.found THEN [thrown |-> FALSE, out |-> s]
        ELSE [thrown |-> FALSE, out |-> wrap(r.def, s)]

\* Style.enable
enableStyle(cf, val) == IF val = TRUE THEN TRUE ELSE cf

VARIABLES
    \* the style object: its class ("Style" or "ColorStyle"), _colorFormat
    \* (class Style) and the table styles
    yClass, yColorFormat, yStyles,
    \* the constructor returned: ColorStyle declares styles as a field and
    \* as a getter, and where the build emits no field the assignment in
    \* the constructor meets the getter alone and throws
    yBuilt,
    \* history: the custom table the constructor was given, whether
    \* enable(true) was ever called, the last call made with its arguments
    \* [op, val, text, style] and the outcome of the last format [thrown, out]
    yCustom, yEnabled, yCall, yOut

varsY == <<yClass, yColorFormat, yStyles, yBuilt, yCustom, yEnabled, yCall, yOut>>

NoCall == [op |-> "new", val |-> FALSE, text |-> <<>>, style |-> ByName("")]

\* new Style(options) or new ColorStyle(options)
NewStyle(class, custom, built) ==
    /\ yClass = class
    /\ yBuilt = built
    /\ yColorFormat = FALSE
    /\ yStyles = IF built
                 THEN newStyles(custom, IF class = "Style" THEN defaultStyles
                                        ELSE colorStyles)
                 ELSE NoTable
    /\ yCustom = custom
    /\ yEnabled = FALSE
    /\ yCall = NoCall
    /\ yOut = [thrown |-> FALSE, out |-> <<>>]

\* no style object in use but the default one
NoStyle == NewStyle("Style", NoTable, TRUE)

(***************************************************************************)
(* Logger of logger.ts: the fragments are chained first and a level method *)
(* outputs them                                                            *)
(***************************************************************************)
VARIABLES
    \* Logger._pre, and the property showElapsed that elapsed() and
    \* clearLine() assign (the field _showElapsed is never assigned: false)
    pre, showElapsed

varsP == <<pre, showElapsed>>

\* nothing pending
NoPending == pre = <<>> /\ showElapsed = FALSE

(***************************************************************************)
(* LogManager.start() and LogManager.logger() (part_003), call by call     *)
(***************************************************************************)
VARIABLES
    \* _runOpts.autoRun (_autoRun in the first class)
    sAutoRun,
    \* the calls of start() entered and not yet resolved, and where the
    \* innermost of them stands: "idle", "jobs" (the transports are being
    \* opened), "then" (the jobs have settled) or "done"
    sDepth, sPc,
    \* how often open() of each transport has been invoked
    sOpens,
    \* the transportOpts the last logger() was called with, and what came
    \* of it: [thrown, transportOpts]
    gCall, gOut

varsR == <<sAutoRun, sDepth, sPc, sOpens, gCall, gOut>>

\* options.transportOpts of a call of logger(): given or undefined, a list
NoLoggerCall == [op |-> "none", given |-> FALSE, list |-> <<>>]
NoLoggerOut == [thrown |-> FALSE, transportOpts |-> <<>>]

\* no start() and no logger() has been called
NoStart ==
    /\ sAutoRun = TRUE
    /\ sDepth = 0
    /\ sPc = "idle"
    /\ sOpens = [t \in Transports |-> 0]
    /\ gCall = NoLoggerCall
    /\ gOut = NoLoggerOut

(***************************************************************************)
(* Elapsed (elapsed.ts:27-80): a timer over the clock performance.now().   *)
(* The clock counts in the unit the class calls Microseconds and moves in  *)
(* steps of a thousand of them; a reading is the difference over 1000.     *)
(***************************************************************************)
VARIABLES
    \* the clock, Elapsed._startTime and Elapsed._lastMeasurement
    tNow, tStart, tLast,
    \* history: the last call made on the timer and what the last measure
    \* returned [total, interval]
    tCall, tRes

varsT == <<tNow, tStart, tLast, tCall, tRes>>

Tick == 1000

\* new Elapsed() at the time now
NewElapsed(now) ==
    /\ tNow = now
    /\ tStart = now
    /\ tLast = now
    /\ tCall = "new"
    /\ tRes = [total |-> 0, interval |-> 0]

\* no timer in use but the module's own `elapsed`
NoTimer == NewElapsed(0)

measure_keepLast(now, start, lastM) ==
    [total |-> (now - start) \div 1000, interval |-> (now - lastM) \div 1000,
     lastM |-> lastM]

\* Elapsed.measure: the result and the new _lastMeasurement
measure(now, start, lastM) ==
    [total |-> (now - start) \div 1000, interval |-> (now - lastM) \div 1000,
     lastM |-> now]

resetInterval_all(now, start) == [start |-> now, lastM |-> now]

\* Elapsed.resetInterval
resetInterval(now, start) == [start |-> start, lastM |-> now]

\* Elapsed.resetAll
resetAll(now) == [start |-> now, lastM |-> now]

\* new FileTransport(options)
NewFileTransport ==
    /\ fStream = FALSE
    /\ fBuffer = <<>>
    /\ fWritable = TRUE
    /\ fReady = FALSE
    /\ fBReady = FALSE
    /\ fOut = <<>>
    /\ fNeedDrain = FALSE
    /\ fBroken = FALSE
    /\ fOnce = FALSE
    /\ fCalls = 0
    /\ fThrown = FALSE
    /\ fLast = "new"
    /\ fHeld = FALSE
    /\ fOpened = FALSE

\* no LogManager in use
NoMgr ==
    /\ mgrVer = 1
    /\ running = FALSE
    /\ allTransportsReady = TRUE
    /\ mgrLevel = 0
    /\ mgrTransports = <<>>
    /\ queue = <<>>
    /\ ready = [t \in Transports |-> FALSE]
    /\ meetsUndefined = TRUE
    /\ sent = [t \in Transports |-> <<>>]
    /\ logged = 0
    /\ flushLog = <<>>
    /\ mgrLast = "new"
    /\ mgrArg = 0

\* new Logger(opts): LoggerState with level info unless opts.level is valid
InitS ==
    /\ \E a \in CtorLevels :
        /\ loggerLevel = setLevel(logLevel.info, a)
        /\ answer = IF NamedLevel(a) = "" THEN NoAnswer
                    ELSE [NoAnswer EXCEPT !.want = NamedLevel(a)]
    /\ \E o \in ShowOpts :
        /\ levelPrefix = o.level
        /\ timePrefix = o.time
        /\ colorFormat = o.color
    /\ keepLines \in BOOLEAN
    /\ lines = <<>>
    /\ console = <<>>
    /\ buffer = <<>>
    /\ line = NewLine
    /\ err = NoError
    /\ handle = FALSE
    /\ asked = NothingAsked
    /\ due = <<>>
    /\ last = "new"
    /\ NoM
    /\ NoMgr
    /\ NewFileTransport
    /\ NoStyle
    /\ NoTimer
    /\ NoStart
    /\ NoPending

(***************************************************************************)
(* LoggerLine of part_010                                                  *)
(***************************************************************************)
isEmpty(l) == Len(l.parts) = 0

clear10(l) == [l EXCEPT !.enabled = FALSE, !.showElapsed = FALSE, !.parts = <<>>]

enable(l) == [l EXCEPT !.enabled = TRUE]

setLineLevel(l, val) == [l EXCEPT !.level = val]

tab10(l, n) ==
    IF l.enabled THEN [l EXCEPT !.parts = Append(@, Repeat(" ", n * tabSize - 1))] ELSE l

indent10(l, n) ==
    IF l.enabled THEN [l EXCEPT !.parts = Append(@, Repeat(" ", n - 1))] ELSE l

data10(l) ==
    IF l.enabled THEN [l EXCEPT !.parts = Append(@, DataStr)] ELSE l

stylize10(l, style, args) ==
    IF l.enabled /\ Len(args) > 0
    THEN [l EXCEPT !.parts = Append(@, format(colorFormat, Join(args), style))]
    ELSE l

elapsed(l) == [l EXCEPT !.showElapsed = TRUE]

addLevelPrefix10(l) ==
    IF levelPrefix
    THEN [l EXCEPT !.parts = <<format(colorFormat, LevelTag(l.level), "_levelPrefix")>> \o @]
    ELSE l

addTimePrefix10(l) ==
    IF timePrefix
    THEN [l EXCEPT !.parts = <<format(colorFormat, TimeStr, "_timePrefix")>> \o @]
    ELSE l

\* the string emit builds: the parts and the arguments joined, and with
\* showElapsed the string conversion of what stylize returns (the line object)
emitText10(l, args) ==
    LET p == addTimePrefix10(addLevelPrefix10(l))
        text == Join(p.parts \o args)
    IN  IF l.showElapsed THEN text \o <<" ">> \o ObjectStr ELSE text

\* Logger.initLine of part_005 on the line: clear, level, enable when the
\* threshold is met, the leading tabs of the first argument, then text(...args)
initLine10_enabled(l, lv, args) ==
    stylize10(enable(setLineLevel(clear10(l), lv)), "text", args)

initLine10_keepTabs(l, lv, args) ==
    LET l1 == setLineLevel(clear10(l), lv)
        l2 == IF loggerLevel <= lv THEN enable(l1) ELSE l1
        count == IF Len(args) > 0 THEN countTabsAtBeginningOfString(args[1]) ELSE 0
        l3 == IF count > 0 THEN tab10(l2, count) ELSE l2
    IN  stylize10(l3, "text", args)

initLine10(l, lv, args) ==
    LET l1 == setLineLevel(clear10(l), lv)
        l2 == IF loggerLevel <= lv THEN enable(l1) ELSE l1
        count == IF Len(args) > 0 THEN countTabsAtBeginningOfString(args[1]) ELSE 0
        l3 == IF count > 0 THEN tab10(l2, count) ELSE l2
        rest == IF count > 0 THEN <<Slice(args[1], count)>> \o Tail(args) ELSE args
    IN  stylize10(l3, "text", rest)

(***************************************************************************)
(* LoggerLine of part_009 (first class): parts, suffix and tab, written to *)
(* the transport of the LoggerState.  colorFormat stands for the options   *)
(* colorize and enableStyles given together.                               *)
(***************************************************************************)
clear9(l) ==
    [l EXCEPT !.enabled = FALSE, !.showElapsed = FALSE, !.parts = <<>>, !.suffix = <<>>]

indent9(l, n) ==
    IF l.enabled THEN [l EXCEPT !.tab = Repeat(" ", n - 1)] ELSE l

tab9(l, n) ==
    IF l.enabled THEN [l EXCEPT !.tab = Repeat(" ", n * tabSize - 1)] ELSE l

data9(l) ==
    IF l.enabled THEN [l EXCEPT !.parts = Append(@, DataStr)] ELSE l

comment9(l, args) == [l EXCEPT !.suffix = @ \o args]

\* colorize && transport.supportsColor: one formatted part, else the arguments
stylize9(l, style, args) ==
    IF l.enabled /\ Len(args) > 0
    THEN IF colorFormat
         THEN [l EXCEPT !.parts = Append(@, format(colorFormat, Join(args), style))]
         ELSE [l EXCEPT !.parts = @ \o args]
    ELSE l

plain9(l, args) ==
    IF l.enabled /\ Len(args) > 0 THEN [l EXCEPT !.parts = @ \o args] ELSE l

addPlain9(l, args) == [l EXCEPT !.parts = @ \o args]

addSuffix9(l) ==
    IF Len(l.suffix) > 0 THEN stylize9(l, "_suffix", l.suffix) ELSE l

addElapsed9(l) ==
    IF l.showElapsed THEN stylize9(l, "_elapsed", <<ElapsedStr>>) ELSE l

\* formatAsString: the line after the additions, and the string returned
formatted9(l) == addElapsed9(addSuffix9(addTimePrefix10(addLevelPrefix10(l))))

formatAsString9(l) == Join(formatted9(l).parts)

\* the line emit hands to the transport
emitLine9(l, args) ==
    addElapsed9(addSuffix9(addPlain9(
        addTimePrefix10(addLevelPrefix10(addPlain9(l, args))), args)))

initLine9_enabled(l, lv, args) ==
    stylize9(enable(setLineLevel(clear9(l), lv)), "text", args)

\* Logger.initLine of part_005 on this line
initLine9(l, lv, args) ==
    LET l1 == setLineLevel(clear9(l), lv)
        l2 == IF loggerLevel <= lv THEN enable(l1) ELSE l1
        count == IF Len(args) > 0 THEN countTabsAtBeginningOfString(args[1]) ELSE 0
        l3 == IF count > 0 THEN tab9(l2, count) ELSE l2
        rest == IF count > 0 THEN <<Slice(args[1], count)>> \o Tail(args) ELSE args
    IN  stylize9(l3, "text", rest)

(***************************************************************************)
(* SpecL: the level threshold of a Logger and its queries                  *)
(***************************************************************************)
\* Logger.setLevel -> LoggerState.setLevel
SetLevel ==
    \E a \in LevelArgs :
        /\ last' = "set"
        /\ loggerLevel' = setLevel(loggerLevel, a)
        /\ answer' = IF NamedLevel(a) = "" THEN [answer EXCEPT !.set = a]
                     ELSE [answer EXCEPT !.want = NamedLevel(a), !.set = a]
        /\ UNCHANGED <<levelPrefix, timePrefix, keepLines, lines, colorFormat,
                       console, buffer, line, err, handle, asked, due>>

\* Logger.isEnabledFor -> LoggerState.isEnabledFor
IsEnabledFor ==
    \E a \in LevelArgs :
        /\ last' = "other"
        /\ answer' = [answer EXCEPT !.made = TRUE, !.arg = a, !.at = answer.want,
                                     !.res = isEnabledFor(loggerLevel, a)]
        /\ UNCHANGED <<showVars, lines, console, buffer, line, err, handle, asked, due>>

(***************************************************************************)
(* Spec10: Logger (part_005) over LoggerLine (part_010)                    *)
(***************************************************************************)
\* `if (this._state.setKeepLines)`: the test reads the method, not the flag
keepLinesTest10 == TRUE

\* what the caller asks for with a further fragment, while a line is open
AskMore(frag) ==
    IF asked.open THEN [asked EXCEPT !.req = Append(@, frag)] ELSE asked

\* the caller holds a line and the bound on fragments leaves room
CanAdd == handle /\ Len(asked.req) < MaxParts /\ Len(line.parts) < MaxParts

\* Logger.trace/debug/verbose/info/warn/error -> initLine
LevelCall10 ==
    \E lv \in CallLevels, args \in CallArgs :
        /\ last' = "level"
        /\ Len(due) < MaxLines /\ Len(lines) < MaxLines
        /\ IF ~isEmpty(line)
           THEN /\ err' = Error(EmitFirst)
                /\ UNCHANGED <<line, handle, asked>>
           ELSE /\ err' = NoError
                /\ line' = initLine10(line, lv, args)
                /\ handle' = TRUE
                /\ asked' = [open |-> TRUE, lvl |-> lv, thr |-> loggerLevel,
                             req |-> AskedOfArgs(args), cmt |-> <<>>, elapsed |-> FALSE]
        /\ UNCHANGED <<showVars, lines, console, buffer, due, answer>>

\* Logger.skip -> initLine(logLevel.skip, ...args)
Skip10 ==
    \E args \in CallArgs :
        /\ last' = "level"
        /\ Len(due) < MaxLines /\ Len(lines) < MaxLines
        /\ IF ~isEmpty(line)
           THEN /\ err' = Error(EmitFirst)
                /\ UNCHANGED <<line, handle, asked>>
           ELSE /\ err' = NoError
                /\ line' = initLine10(line, skipLevel, args)
                /\ handle' = TRUE
                /\ asked' = [open |-> TRUE, lvl |-> skipLevel, thr |-> loggerLevel,
                             req |-> AskedOfArgs(args), cmt |-> <<>>, elapsed |-> FALSE]
        /\ UNCHANGED <<showVars, lines, console, buffer, due, answer>>

Tab10 ==
    \E n \in 1..MaxTab :
        /\ last' = "frag"
        /\ CanAdd
        /\ line' = tab10(line, n)
        /\ asked' = AskMore(Repeat(" ", n * tabSize - 1))
        /\ UNCHANGED <<showVars, lines, console, buffer, err, handle, due, answer>>

Stylize10 ==
    \E style \in StyleNames, args \in FragArgs :
        /\ last' = "frag"
        /\ CanAdd
        /\ line' = stylize10(line, style, args)
        /\ asked' = IF Len(args) > 0 THEN AskMore(Join(args)) ELSE asked
        /\ UNCHANGED <<showVars, lines, console, buffer, err, handle, due, answer>>

Data10 ==
    /\ last' = "frag"
    /\ CanAdd
    /\ line' = data10(line)
    /\ asked' = AskMore(DataStr)
    /\ UNCHANGED <<showVars, lines, console, buffer, err, handle, due, answer>>

Elapsed10 ==
    /\ last' = "other"
    /\ handle
    /\ line' = elapsed(line)
    /\ asked' = IF asked.open THEN [asked EXCEPT !.elapsed = TRUE] ELSE asked
    /\ UNCHANGED <<showVars, lines, console, buffer, err, handle, due, answer>>

\* LoggerLine.emit of part_010
Emit10 ==
    \E args \in EmitArgs :
        /\ last' = "emit"
        /\ handle
        /\ IF line.enabled
           THEN /\ IF keepLinesTest10
                   THEN lines' = Append(lines, emitText10(line, args)) /\ console' = console
                   ELSE console' = Append(console, emitText10(line, args)) /\ lines' = lines
                /\ line' = clear10(line)
           ELSE UNCHANGED <<lines, console, line>>
        /\ due' = IF asked.open /\ asked.lvl >= asked.thr
                  THEN Append(due, DueText(asked, args, asked.elapsed))
                  ELSE due
        /\ asked' = [asked EXCEPT !.open = FALSE]
        /\ UNCHANGED <<showVars, buffer, err, handle, answer>>

clearLines_keep(ls) == ls

\* LoggerState.clearLines: this._lines = []
clearLines(ls) == <<>>

\* LoggerState.setKeepLines(val) with a boolean
SetKeepLines ==
    \E val \in BOOLEAN :
        /\ last' = "other"
        /\ keepLines' = val
        /\ UNCHANGED <<loggerLevel, levelPrefix, timePrefix, colorFormat, lines,
                       console, buffer, line, err, handle, asked, due, answer>>

\* Logger.clearLines -> LoggerState.clearLines
ClearLines ==
    /\ last' = "clear"
    /\ lines' = clearLines(lines)
    /\ due' = <<>>
    /\ UNCHANGED <<showVars, console, buffer, line, err, handle, asked, answer>>

(***************************************************************************)
(* Spec9: Logger (part_005) over LoggerLine (part_009, first class)        *)
(***************************************************************************)
\* Logger.setLevel with the levels the constructor is given in these runs
SetLevel9 ==
    \E a \in CtorLevels :
        /\ last' = "other"
        /\ loggerLevel' = setLevel(loggerLevel, a)
        /\ answer' = IF NamedLevel(a) = "" THEN answer
                     ELSE [answer EXCEPT !.want = NamedLevel(a)]
        /\ UNCHANGED <<levelPrefix, timePrefix, keepLines, lines, colorFormat,
                       console, buffer, line, err, handle, asked, due>>

LevelCall9 ==
    \E lv \in CallLevels, args \in CallArgs :
        /\ last' = "level"
        /\ Len(buffer) + Len(console) < MaxLines
        /\ IF ~isEmpty(line)
           THEN /\ err' = Error(EmitFirst)
                /\ UNCHANGED <<line, handle, asked>>
           ELSE /\ err' = NoError
                /\ line' = initLine9(line, lv, args)
                /\ handle' = TRUE
                /\ asked' = [open |-> TRUE, lvl |-> lv, thr |-> loggerLevel,
                             req |-> AskedOfArgs(args), cmt |-> <<>>, elapsed |-> FALSE]
        /\ UNCHANGED <<showVars, lines, console, buffer, due, answer>>

Tab9 ==
    \E n \in 1..MaxTab :
        /\ last' = "frag"
        /\ CanAdd
        /\ line' = tab9(line, n)
        /\ asked' = AskMore(Repeat(" ", n * tabSize - 1))
        /\ UNCHANGED <<showVars, lines, console, buffer, err, handle, due, answer>>

Indent9 ==
    \E n \in 1..MaxTab :
        /\ last' = "frag"
        /\ CanAdd
        /\ line' = indent9(line, n)
        /\ asked' = AskMore(Repeat(" ", n - 1))
        /\ UNCHANGED <<showVars, lines, console, buffer, err, handle, due, answer>>

Stylize9 ==
    \E style \in StyleNames, args \in FragArgs :
        /\ last' = "frag"
        /\ CanAdd
        /\ line' = stylize9(line, style, args)
        /\ asked' = IF Len(args) > 0 THEN AskMore(Join(args)) ELSE asked
        /\ UNCHANGED <<showVars, lines, console, buffer, err, handle, due, answer>>

Plain9 ==
    \E args \in FragArgs :
        /\ last' = "frag"
        /\ CanAdd
        /\ line' = plain9(line, args)
        /\ asked' = IF Len(args) > 0 THEN AskMore(Join(args)) ELSE asked
        /\ UNCHANGED <<showVars, lines, console, buffer, err, handle, due, answer>>

Data9 ==
    /\ last' = "frag"
    /\ CanAdd
    /\ line' = data9(line)
    /\ asked' = AskMore(DataStr)
    /\ UNCHANGED <<showVars, lines, console, buffer, err, handle, due, answer>>

Comment9 ==
    /\ last' = "other"
    /\ handle /\ Len(line.suffix) < MaxComments
    /\ line' = comment9(line, <<CommentStr>>)
    /\ asked' = IF asked.open THEN [asked EXCEPT !.cmt = Append(@, CommentStr)] ELSE asked
    /\ UNCHANGED <<showVars, lines, console, buffer, err, handle, due, answer>>

Elapsed9 ==
    /\ last' = "other"
    /\ handle
    /\ line' = elapsed(line)
    /\ asked' = IF asked.open THEN [asked EXCEPT !.elapsed = TRUE] ELSE asked
    /\ UNCHANGED <<showVars, lines, console, buffer, err, handle, due, answer>>

\* LoggerLine.emit of part_009: the transport is the buffer when the logger
\* was made with keepLines, else the console
Emit9 ==
    \E args \in EmitArgs :
        /\ last' = "emit"
        /\ handle
        /\ IF line.enabled
           THEN /\ IF keepLines
                   THEN /\ buffer' = Append(buffer, formatAsString9(emitLine9(line, args)))
                        /\ console' = console
                   ELSE /\ console' = Append(console, formatAsString9(emitLine9(line, args)))
                        /\ buffer' = buffer
                /\ line' = clear9(formatted9(emitLine9(line, args)))
           ELSE UNCHANGED <<buffer, console, line>>
        /\ asked' = [asked EXCEPT !.open = FALSE]
        /\ UNCHANGED <<showVars, lines, err, handle, due, answer>>

(***************************************************************************)
(* SpecM: Logger (part_004) over the multi-transport LoggerLine (line.ts). *)
(* The line is taken as constructed with its list of TransportLines: the   *)
(* field _transportLines has no initialiser in line.ts:35.                 *)
(***************************************************************************)
\* the LoggerState fields of the other line builders, unused here
idleS == <<loggerLevel, levelPrefix, timePrefix, keepLines, lines, colorFormat,
           console, buffer, line, due, answer>>

\* LoggerLine.clear, then setLevel, then setInitialString
initLineM(lv, args) ==
    LET count == IF Len(args) > 0 THEN countTabsAtBeginningOfString(args[1]) ELSE 0
        rest == IF count > 0 THEN <<Slice(args[1], count)>> \o Tail(args) ELSE args
        start(t) ==
            LET t1 == setLevelT(clearT(t), lv)
                t2 == IF count > 0 THEN tabT(t1, count) ELSE t1
            IN  IF Len(rest) > 0 THEN stylizeT(t2, "text", rest) ELSE t2
    IN  [t \in Transports |-> start(tls[t])]

\* new Logger(options) with two transports; the first shows the level
InitM ==
    /\ tls = [t \in Transports |-> NewTransportLine(ThresholdsM[t], t = 1)]
    /\ written = [t \in Transports |-> <<>>]
    /\ elapsedM = FALSE
    /\ loggerLevel = logLevel.info
    /\ levelPrefix = FALSE /\ timePrefix = FALSE /\ keepLines = FALSE
    /\ colorFormat = FALSE
    /\ lines = <<>> /\ console = <<>> /\ buffer = <<>>
    /\ line = NewLine
    /\ due = <<>>
    /\ answer = NoAnswer
    /\ err = NoError
    /\ handle = FALSE
    /\ asked = NothingAsked
    /\ last = "new"
    /\ NoMgr
    /\ NewFileTransport
    /\ NoStyle
    /\ NoTimer
    /\ NoStart
    /\ NoPending

CanAddM == handle /\ \A t \in Transports : Len(tls[t].parts) < MaxParts

\* Logger.trace .. Logger.error -> initLine: _initialized is false, no throw
LevelCallM ==
    \E lv \in CallLevels, args \in CallArgs :
        /\ last' = "level"
        /\ \A t \in Transports : Len(written[t]) < MaxLines
        /\ err' = NoError
        /\ elapsedM' = FALSE
        /\ tls' = initLineM(lv, args)
        /\ handle' = TRUE
        /\ asked' = [NothingAsked EXCEPT !.open = TRUE, !.lvl = lv]
        /\ UNCHANGED <<idleS, written>>

\* Logger.setLevelThreshold -> LoggerLine.setLevelThreshold
SetLevelThresholdM ==
    \E name \in {"debug", "info", "error", "bogus"} :
        LET a == LevelArg("name", name, 0)
        IN  /\ last' = "set"
            /\ tls' = [t \in Transports |->
                          setLevelThresholdT(tls[t], logLevelToValue(a))]
            /\ answer' = [answer EXCEPT !.set = a]
            /\ UNCHANGED <<loggerLevel, levelPrefix, timePrefix, keepLines,
                           lines, colorFormat, console, buffer, line, due,
                           written, elapsedM, err, handle, asked>>

TabM ==
    \E n \in 1..MaxTab :
        /\ last' = "frag"
        /\ CanAddM
        /\ tls' = [t \in Transports |-> tabT(tls[t], n)]
        /\ asked' = [asked EXCEPT !.req =
                        IF \A t \in Transports :
                               tls[t].enabled /\ tls[t].parts = <<>>
                        THEN <<Repeat(" ", n * tabSize - 1)>> ELSE <<>>]
        /\ UNCHANGED <<idleS, written, elapsedM, err, handle>>

IndentM ==
    \E n \in 1..MaxTab :
        /\ last' = "frag"
        /\ CanAddM
        /\ tls' = [t \in Transports |-> indentT(tls[t], n)]
        /\ UNCHANGED <<idleS, written, elapsedM, err, handle, asked>>

StylizeM ==
    \E style \in StyleNames, args \in FragArgs :
        /\ last' = "frag"
        /\ CanAddM
        /\ tls' = IF Len(args) > 0
                  THEN [t \in Transports |-> stylizeT(tls[t], style, args)]
                  ELSE tls
        /\ UNCHANGED <<idleS, written, elapsedM, err, handle, asked>>

PlainM ==
    \E args \in FragArgs :
        /\ last' = "frag"
        /\ CanAddM
        /\ tls' = IF Len(args) > 0
                  THEN [t \in Transports |-> appendMsg(tls[t], args)]
                  ELSE tls
        /\ UNCHANGED <<idleS, written, elapsedM, err, handle, asked>>

DataM ==
    /\ last' = "frag"
    /\ CanAddM
    /\ tls' = [t \in Transports |-> addMsgPart(tls[t], DataStr)]
    /\ UNCHANGED <<idleS, written, elapsedM, err, handle, asked>>

CommentM ==
    /\ last' = "other"
    /\ handle /\ \A t \in Transports : Len(tls[t].suffix) < MaxComments
    /\ tls' = [t \in Transports |-> appendSuffix(tls[t], <<CommentStr>>)]
    /\ UNCHANGED <<idleS, written, elapsedM, err, handle, asked>>

ElapsedM ==
    /\ last' = "other"
    /\ handle
    /\ elapsedM' = TRUE
    /\ UNCHANGED <<idleS, written, tls, err, handle, asked>>

\* LoggerLine.emit: plain(...args), every TransportLine.emit, clear
EmitM ==
    \E args \in EmitArgs :
        /\ last' = "emit"
        /\ handle
        /\ \A t \in Transports : Len(written[t]) < MaxLines
        /\ LET plain(t) == IF Len(args) > 0 THEN appendMsg(t, args) ELSE t
           IN  /\ written' = [t \in Transports |->
                                IF plain(tls[t]).enabled
                                THEN Append(written[t], emitTextT(plain(tls[t])))
                                ELSE written[t]]
               /\ tls' = [t \in Transports |-> clearT(emitT(plain(tls[t])))]
        /\ elapsedM' = FALSE
        /\ asked' = [asked EXCEPT !.open = FALSE]
        /\ UNCHANGED <<idleS, err, handle>>

NextM ==
    /\ UNCHANGED <<varsMgr, varsF, varsY, varsT, varsR, varsP>>
    /\ \/ LevelCallM
       \/ SetLevelThresholdM
       \/ TabM
       \/ IndentM
       \/ StylizeM
       \/ PlainM
       \/ DataM
       \/ CommentM
       \/ ElapsedM
       \/ EmitM

NextL ==
    /\ UNCHANGED <<varsM, varsMgr, varsF, varsY, varsT, varsR, varsP>>
    /\ \/ SetLevel
       \/ IsEnabledFor

Next10 ==
    /\ UNCHANGED <<varsM, varsMgr, varsF, varsY, varsT, varsR, varsP>>
    /\ \/ LevelCall10
       \/ Skip10
       \/ Tab10
       \/ Stylize10
       \/ Data10
       \/ Elapsed10
       \/ Emit10
       \/ ClearLines
       \/ SetKeepLines

Next9 ==
    /\ UNCHANGED <<varsM, varsMgr, varsF, varsY, varsT, varsR, varsP>>
    /\ \/ LevelCall9
       \/ Tab9
       \/ Indent9
       \/ Stylize9
       \/ Plain9
       \/ Data9
       \/ Comment9
       \/ Elapsed9
       \/ Emit9
       \/ SetLevel9

(***************************************************************************)
(* LogManager (part_003).  The file holds two classes; mgrVer says which   *)
(* one runs.  The names the classes read without declaring them are taken  *)
(* as the fields they stand for: this.queue (line 522) is _queue, and      *)
(* _showOpts.levelThreshold (lines 1011, 1031) is the manager's threshold, *)
(* info by default (line 716).  A LoggerTransport has no member level      *)
(* (base.ts:27-100, transport.ts:42-120), so transport.level is undefined. *)
(* An undefined level is 0.                                                *)
(***************************************************************************)
\* the levels of the messages logged
MsgLevels == {logLevel.info, logLevel.error}

\* the logLevel argument of logParams (first class) and the _logLevel of a
\* message passed in (second class): undefined or a level
LogLevelArgs == {0, logLevel.info, logLevel.error}

\* LoggerTransport._levelThreshold, set by the constructor
levelThreshold(t) == ThresholdsM[t]

\* LEVEL_ORDER.indexOf(level) >= LEVEL_ORDER.indexOf(threshold); indexOf of
\* an undefined threshold is -1
isAboveLevel(level, thresholdLevel) ==
    LET threshold == IF thresholdLevel # 0 THEN thresholdLevel ELSE mgrLevel
    IN  level >= threshold

\* levels.ts is not part of the sources: at or above the threshold, and
\* meetsUndefined when there is no threshold
meetsLogThreshold(level, threshold) ==
    IF threshold = 0 THEN meetsUndefined ELSE level >= threshold

checkIfAllTransportsAreReady ==
    \A i \in 1..Len(mgrTransports) : ready[mgrTransports[i]]

\* flushQueue of the first class, the forEach from the i-th transport on:
\* logLevel = transport.level || nextMsg._logLevel || this.logLevel
RECURSIVE forEach1(_, _, _, _)
forEach1(msg, i, snt, to) ==
    IF i > Len(mgrTransports) THEN [sent |-> snt, to |-> to]
    ELSE LET t == mgrTransports[i]
             lvl == IF msg.lg # 0 THEN msg.lg ELSE mgrLevel
         IN  IF isAboveLevel(msg.level, lvl)
             THEN forEach1([msg EXCEPT !.lg = 0], i + 1,
                           [snt EXCEPT ![t] = Append(@, msg.id)], to \cup {t})
             ELSE forEach1(msg, i + 1, snt, to)

\* the same of the second class, which has no logLevel of its own
RECURSIVE forEach2(_, _, _, _)
forEach2(msg, i, snt, to) ==
    IF i > Len(mgrTransports) THEN [sent |-> snt, to |-> to]
    ELSE LET t == mgrTransports[i]
         IN  IF meetsLogThreshold(msg.level, msg.lg)
             THEN forEach2([msg EXCEPT !.lg = 0], i + 1,
                           [snt EXCEPT ![t] = Append(@, msg.id)], to \cup {t})
             ELSE forEach2(msg, i + 1, snt, to)

\* flushQueue of the first class: [queue, sent, log]
RECURSIVE flushQueue1(_, _, _, _)
flushQueue1(run, q, snt, log) ==
    IF /\ run /\ Len(q) > 0
       /\ Len(mgrTransports) > 0
       /\ (~allTransportsReady \/ checkIfAllTransportsAreReady)
    THEN LET r == forEach1(Head(q), 1, snt, {})
         IN  flushQueue1(run, Tail(q), r.sent,
                         Append(log, [msg |-> Head(q), to |-> r.to]))
    ELSE [queue |-> q, sent |-> snt, log |-> log]

\* flushQueue of the second class
RECURSIVE flushQueue2(_, _, _, _)
flushQueue2(run, q, snt, log) ==
    IF /\ run /\ Len(q) > 0
       /\ Len(mgrTransports) > 0
       /\ (allTransportsReady \/ ~checkIfAllTransportsAreReady)
    THEN LET r == forEach2(Head(q), 1, snt, {})
         IN  flushQueue2(run, Tail(q), r.sent,
                         Append(log, [msg |-> Head(q), to |-> r.to]))
    ELSE [queue |-> q, sent |-> snt, log |-> log]

\* what a call that does not flush leaves alone
mgrOpts == <<mgrVer, allTransportsReady, meetsUndefined>>

\* new LogManager(options) -> setOptions: not running, no transport yet (each
\* options.transports entry is an addTransport call)
InitMgr ==
    /\ mgrVer \in {1, 2}
    /\ running = FALSE
    /\ allTransportsReady \in BOOLEAN
    /\ mgrLevel = IF mgrVer = 1 THEN 0 ELSE logLevel.info
    /\ mgrTransports = <<>>
    /\ queue = <<>>
    /\ ready = [t \in Transports |-> FALSE]
    /\ meetsUndefined \in (IF mgrVer = 1 THEN {TRUE} ELSE BOOLEAN)
    /\ sent = [t \in Transports |-> <<>>]
    /\ logged = 0
    /\ flushLog = <<>>
    /\ mgrLast = "new"
    /\ mgrArg = 0
    /\ NewFileTransport
    /\ NoStyle
    /\ NoTimer
    /\ NoStart
    /\ NoPending
    /\ NoM
    /\ loggerLevel = logLevel.info
    /\ levelPrefix = FALSE /\ timePrefix = FALSE /\ keepLines = FALSE
    /\ colorFormat = FALSE
    /\ lines = <<>> /\ console = <<>> /\ buffer = <<>>
    /\ line = NewLine
    /\ due = <<>>
    /\ answer = NoAnswer
    /\ err = NoError
    /\ handle = FALSE
    /\ asked = NothingAsked
    /\ last = "new"

InList(t) == \E i \in 1..Len(mgrTransports) : mgrTransports[i] = t

\* addTransport of the first class: _running = false, unshift
AddTransport1 ==
    \E t \in Transports :
        /\ mgrVer = 1 /\ ~InList(t)
        /\ running' = FALSE
        /\ mgrTransports' = <<t>> \o mgrTransports
        /\ ready' = [ready EXCEPT ![t] = FALSE]
        /\ flushLog' = <<>>
        /\ mgrLast' = "add"
        /\ mgrArg' = t
        /\ UNCHANGED <<mgrOpts, mgrLevel, queue, sent, logged>>

\* addTransport of the second class: push
AddTransport2 ==
    \E t \in Transports :
        /\ mgrVer = 2 /\ ~InList(t)
        /\ mgrTransports' = Append(mgrTransports, t)
        /\ ready' = [ready EXCEPT ![t] = FALSE]
        /\ flushLog' = <<>>
        /\ mgrLast' = "add"
        /\ mgrArg' = t
        /\ UNCHANGED <<mgrOpts, running, mgrLevel, queue, sent, logged>>

\* removeTransport of the first class: _running = false, the transport is
\* stopped and leaves the list
removeTransport1(t) ==
    /\ running' = FALSE
    /\ mgrTransports' = SelectSeq(mgrTransports, LAMBDA u : u # t)
    /\ ready' = [ready EXCEPT ![t] = FALSE]
    /\ flushLog' = <<>>
    /\ UNCHANGED <<mgrOpts, mgrLevel, queue, sent, logged>>

\* logLogMgrMessage({ level: logLevel.info, ... }) -> logParams of the second
\* class, for a manager that runs or not: [queue, sent, log, logged]
logLogMgrMessage(run) ==
    LET msg == [id |-> logged + 1, level |-> logLevel.info, lg |-> 0,
                emitter |-> "logger"]
        pass == meetsLogThreshold(logLevel.info, mgrLevel)
        r == flushQueue2(run, IF pass THEN Append(queue, msg) ELSE queue,
                         sent, <<>>)
    IN  [queue |-> r.queue, sent |-> r.sent, log |-> r.log,
         logged |-> IF pass THEN logged + 1 ELSE logged]

\* removeTransport of the second class: the same, and the removal is logged
\* at level info
removeTransport2(t) ==
    /\ logged < MaxLogged
    /\ running' = FALSE
    /\ mgrTransports' = SelectSeq(mgrTransports, LAMBDA u : u # t)
    /\ ready' = [ready EXCEPT ![t] = FALSE]
    /\ LET r == logLogMgrMessage(FALSE)
       IN  /\ queue' = r.queue /\ sent' = r.sent /\ flushLog' = r.log
           /\ logged' = r.logged
    /\ UNCHANGED <<mgrOpts, mgrLevel>>

RemoveTransport ==
    \E t \in Transports :
        /\ mgrVer = 1 /\ InList(t)
        /\ removeTransport1(t)
        /\ mgrLast' = "remove"
        /\ mgrArg' = t

RemoveTransport2 ==
    \E t \in Transports :
        /\ mgrVer = 2 /\ InList(t)
        /\ removeTransport2(t)
        /\ mgrLast' = "remove"
        /\ mgrArg' = t

\* startingTransport of the first class when open() rejects: the catch
\* handler removes the transport; the warning is commented out
StartingTransportFails ==
    \E t \in Transports :
        /\ mgrVer = 1 /\ InList(t) /\ ~ready[t]
        /\ removeTransport1(t)
        /\ mgrLast' = "openfail"
        /\ mgrArg' = t

\* startTransport of the second class when open() rejects
StartTransportFails ==
    \E t \in Transports :
        /\ mgrVer = 2 /\ InList(t) /\ ~ready[t]
        /\ removeTransport2(t)
        /\ mgrLast' = "openfail"
        /\ mgrArg' = t

\* startTransport of the second class once open() has resolved: clear() and
\* the message 'logger.start.success'
StartTransport ==
    \E t \in Transports :
        /\ mgrVer = 2 /\ mgrLast = "open" /\ mgrArg = t
        /\ logged < MaxLogged
        /\ LET r == logLogMgrMessage(running)
           IN  /\ queue' = r.queue /\ sent' = r.sent /\ flushLog' = r.log
               /\ logged' = r.logged
        /\ mgrLast' = "started"
        /\ mgrArg' = t
        /\ UNCHANGED <<mgrOpts, running, mgrLevel, mgrTransports, ready>>

\* LoggerTransport.open, called by startingTransport / startTransport
Open ==
    \E t \in Transports :
        /\ InList(t) /\ ~ready[t]
        /\ ready' = [ready EXCEPT ![t] = TRUE]
        /\ flushLog' = <<>>
        /\ mgrLast' = "open"
        /\ mgrArg' = t
        /\ UNCHANGED <<mgrOpts, running, mgrLevel, mgrTransports, queue, sent,
                       logged>>

\* setLevel of the first class: this.transports is undefined, the transports
\* are not told
SetLevel1 ==
    /\ mgrVer = 1 /\ mgrLevel # logLevel.error
    /\ mgrLevel' = logLevel.error
    /\ flushLog' = <<>>
    /\ mgrLast' = "level"
    /\ mgrArg' = 0
    /\ UNCHANGED <<mgrOpts, running, mgrTransports, queue, ready, sent, logged>>

\* the last step of start() in the first class: _running = true, flushQueue()
Start1 ==
    /\ mgrVer = 1 /\ ~running
    /\ running' = TRUE
    /\ LET r == flushQueue1(TRUE, queue, sent, <<>>)
       IN  queue' = r.queue /\ sent' = r.sent /\ flushLog' = r.log
    /\ mgrLast' = "start"
    /\ mgrArg' = 0
    /\ UNCHANGED <<mgrOpts, mgrLevel, mgrTransports, ready, logged>>

\* the last step of start() in the second class
Start2 ==
    /\ mgrVer = 2 /\ ~running
    /\ running' = TRUE
    /\ LET r == flushQueue2(TRUE, queue, sent, <<>>)
       IN  queue' = r.queue /\ sent' = r.sent /\ flushLog' = r.log
    /\ mgrLast' = "start"
    /\ mgrArg' = 0
    /\ UNCHANGED <<mgrOpts, mgrLevel, mgrTransports, ready, logged>>

\* logParams(msgParams, logLevel) of the first class
LogParams1 ==
    \E lv \in MsgLevels, arg \in LogLevelArgs :
        /\ mgrVer = 1 /\ logged < MaxLogged
        /\ LET msg == [id |-> logged + 1, level |-> lv,
                       lg |-> IF arg # 0 THEN arg ELSE mgrLevel, emitter |-> ""]
               r == flushQueue1(running, Append(queue, msg), sent, <<>>)
           IN  queue' = r.queue /\ sent' = r.sent /\ flushLog' = r.log
        /\ logged' = logged + 1
        /\ mgrLast' = "log"
        /\ mgrArg' = 0
        /\ UNCHANGED <<mgrOpts, running, mgrLevel, mgrTransports, ready>>

\* logParams(msgParams) of the second class: queued at or above the
\* manager's threshold only
LogParams2 ==
    \E lv \in MsgLevels, arg \in LogLevelArgs :
        /\ mgrVer = 2 /\ logged < MaxLogged
        /\ LET msg == [id |-> logged + 1, level |-> lv, lg |-> arg,
                       emitter |-> ""]
               pass == meetsLogThreshold(lv, mgrLevel)
               r == flushQueue2(running,
                                IF pass THEN Append(queue, msg) ELSE queue,
                                sent, <<>>)
           IN  /\ queue' = r.queue /\ sent' = r.sent /\ flushLog' = r.log
               /\ logged' = IF pass THEN logged + 1 ELSE logged
        /\ mgrLast' = "log"
        /\ mgrArg' = 0
        /\ UNCHANGED <<mgrOpts, running, mgrLevel, mgrTransports, ready>>

NextMgr ==
    /\ UNCHANGED <<varsS, varsM, varsF, varsY, varsT, varsR, varsP>>
    /\ \/ AddTransport1
       \/ AddTransport2
       \/ RemoveTransport
       \/ RemoveTransport2
       \/ StartingTransportFails
       \/ StartTransportFails
       \/ StartTransport
       \/ Open
       \/ SetLevel1
       \/ Start1
       \/ Start2
       \/ LogParams1
       \/ LogParams2

(***************************************************************************)
(* FileTransport (part_008)                                                *)
(* A line is the number of the write() call that brought it.  A call to    *)
(* stream.write hands the line to the stream and answers true or false     *)
(* (backpressure); the stream emits 'drain' only after it answered false.  *)
(***************************************************************************)
\* the answers of the stream.write calls of one flush
Oks == [1..MaxWrites -> BOOLEAN]

\* the transport and its stream, as one value
fileSt == [stream |-> fStream, buffer |-> fBuffer, writable |-> fWritable,
           out |-> fOut, need |-> fNeedDrain, once |-> fOnce, thrown |-> FALSE]

\* _write(msg): on a null stream the line is pushed and this._stream.once
\* throws a TypeError
write_(st, msg, ok) ==
    IF st.stream /\ st.writable
    THEN [st EXCEPT !.out = Append(@, msg), !.writable = ok,
                    !.need = @ \/ ~ok]
    ELSE IF st.stream
         THEN [st EXCEPT !.buffer = Append(@, msg), !.once = TRUE]
         ELSE [st EXCEPT !.buffer = Append(@, msg), !.thrown = TRUE]

RECURSIVE flushLoop(_, _, _, _)
flushLoop(st, flushing, oks, i) ==
    IF i > Len(flushing) THEN st
    ELSE flushLoop(write_(st, flushing[i], oks[i]), flushing, oks, i + 1)

\* flush() without this._buffer = []
flush_keep(st, oks) ==
    IF Len(st.buffer) > 0 /\ st.stream
    THEN flushLoop(st, st.buffer, oks, 1)
    ELSE st

\* flush()
flush(st, oks) ==
    IF Len(st.buffer) > 0 /\ st.stream
    THEN flushLoop([st EXCEPT !.buffer = <<>>], st.buffer, oks, 1)
    ELSE st

\* the fields a call leaves in st
SetFile(st) ==
    /\ fStream' = st.stream
    /\ fBuffer' = st.buffer
    /\ fWritable' = st.writable
    /\ fOut' = st.out
    /\ fNeedDrain' = st.need
    /\ fOnce' = st.once
    /\ fThrown' = st.thrown

\* the logger of the other specifications, not in use
NoLogger ==
    /\ loggerLevel = logLevel.info
    /\ levelPrefix = FALSE /\ timePrefix = FALSE /\ keepLines = FALSE
    /\ colorFormat = FALSE
    /\ lines = <<>> /\ console = <<>> /\ buffer = <<>>
    /\ line = NewLine
    /\ due = <<>>
    /\ answer = NoAnswer
    /\ err = NoError
    /\ handle = FALSE
    /\ asked = NothingAsked
    /\ last = "new"

InitF ==
    /\ NewFileTransport /\ NoLogger /\ NoM /\ NoMgr /\ NoStyle /\ NoTimer
    /\ NoStart /\ NoPending

\* open() resolves: a new stream; _ready is set, the inherited _bReady that
\* ready() answers is not
OpenF ==
    /\ ~fStream
    /\ SetFile([fileSt EXCEPT !.stream = TRUE, !.need = FALSE, !.once = FALSE])
    /\ fReady' = TRUE
    /\ fBroken' = FALSE
    /\ fLast' = "open"
    /\ fOpened' = TRUE
    /\ UNCHANGED <<fBReady, fCalls, fHeld>>

\* open() rejects: mkdir failed
OpenFailsF ==
    /\ ~fStream
    /\ fThrown' = TRUE
    /\ fLast' = "openfail"
    /\ UNCHANGED <<fStream, fBuffer, fWritable, fReady, fBReady, fOut,
                   fNeedDrain, fBroken, fOnce, fCalls, fHeld, fOpened>>

\* write(msg)
WriteF ==
    \E ok \in BOOLEAN :
        /\ fCalls < MaxWrites
        /\ fCalls' = fCalls + 1
        /\ SetFile(write_(fileSt, fCalls + 1, ok))
        /\ fHeld' = (fHeld \/ ~fStream)
        /\ fLast' = "write"
        /\ UNCHANGED <<fReady, fBReady, fBroken, fOpened>>

\* flush() called from outside
FlushF ==
    \E oks \in Oks :
        /\ SetFile(flush(fileSt, oks))
        /\ fLast' = "flush"
        /\ UNCHANGED <<fReady, fBReady, fBroken, fCalls, fHeld, fOpened>>

\* the stream emits 'drain': the listener of open() sets _writable and
\* flushes, then the once('drain') listeners flush
DrainF ==
    \E oks \in Oks, oks2 \in Oks :
        /\ fStream /\ fNeedDrain /\ ~fBroken
        /\ LET s0 == [fileSt EXCEPT !.need = FALSE, !.once = FALSE,
                                    !.writable = TRUE]
               s1 == flush(s0, oks)
               s2 == IF fOnce THEN flush(s1, oks2) ELSE s1
           IN  SetFile(s2)
        /\ fLast' = "drain"
        /\ UNCHANGED <<fReady, fBReady, fBroken, fCalls, fHeld, fOpened>>

\* the stream emits 'error'
ErrorF ==
    /\ fStream /\ ~fBroken
    /\ fWritable' = FALSE
    /\ fBroken' = TRUE
    /\ fThrown' = FALSE
    /\ fLast' = "error"
    /\ UNCHANGED <<fStream, fBuffer, fReady, fBReady, fOut, fNeedDrain, fOnce,
                   fCalls, fHeld, fOpened>>

\* close(): the stream ends, emits 'close' and is dropped
CloseF ==
    /\ fStream
    /\ SetFile([fileSt EXCEPT !.stream = FALSE, !.need = FALSE, !.once = FALSE])
    /\ fReady' = FALSE
    /\ fLast' = "close"
    /\ UNCHANGED <<fBReady, fBroken, fCalls, fHeld, fOpened>>

\* stop() / end() of LoggerTransport
EndF ==
    /\ fLast # "end"
    /\ fBReady' = FALSE
    /\ fThrown' = FALSE
    /\ fLast' = "end"
    /\ fOpened' = FALSE
    /\ UNCHANGED <<fStream, fBuffer, fWritable, fReady, fOut, fNeedDrain,
                   fBroken, fOnce, fCalls, fHeld>>

NextF ==
    /\ UNCHANGED <<varsS, varsM, varsMgr, varsY, varsT, varsR, varsP>>
    /\ \/ OpenF
       \/ OpenFailsF
       \/ WriteF
       \/ FlushF
       \/ DrainF
       \/ ErrorF
       \/ CloseF
       \/ EndF

(***************************************************************************)
(* SpecY: a style object on its own: construction, enable, addStyle and    *)
(* format.                                                                 *)
(***************************************************************************)
\* the text formatted in the runs
Hello == <<"Hello">>

\* the style arguments of format in the runs: names in and out of the
\* tables, and rules with and without colours
FormatStyles ==
    {ByName(n) : n \in {"text", "action", "strikethru", "custom", "bogus"}}
    \cup {ByDef(d) : d \in {StyleDef(Color.green, 0), StyleDef(0, 0),
                            StyleDef(0, Color.white)}}

InitY ==
    /\ \E class \in {"Style", "ColorStyle"}, custom \in CustomTables \cup {NoTable},
          built \in BOOLEAN :
           /\ class = "Style" => built
           /\ NewStyle(class, custom, built)
    /\ NoLogger /\ NoM /\ NoMgr /\ NewFileTransport /\ NoTimer /\ NoStart
    /\ NoPending

\* Style.enable(val); ColorStyle has no such method
EnableY ==
    \E val \in BOOLEAN :
        /\ yClass = "Style" /\ yBuilt
        /\ yColorFormat' = enableStyle(yColorFormat, val)
        /\ yEnabled' = (yEnabled \/ val)
        /\ yCall' = [NoCall EXCEPT !.op = "enable", !.val = val]
        /\ UNCHANGED <<yClass, yStyles, yBuilt, yCustom, yOut>>

\* Style.addStyle('newStyle', { fg: Color.blue })
AddStyleY ==
    /\ yClass = "Style" /\ yBuilt
    /\ yStyles' = [n \in DOMAIN yStyles \cup {"newStyle"} |->
                      IF n = "newStyle" THEN StyleDef(Color.blue, 0) ELSE yStyles[n]]
    /\ yCall' = [NoCall EXCEPT !.op = "addStyle"]
    /\ UNCHANGED <<yClass, yColorFormat, yBuilt, yCustom, yEnabled, yOut>>

\* format('Hello', style)
FormatY ==
    \E style \in FormatStyles :
        /\ yBuilt
        /\ yOut' = IF yClass = "Style"
                   THEN StyleFormat(yColorFormat, yStyles, Hello, style)
                   ELSE ColorStyleFormat(yStyles, Hello, style)
        /\ yCall' = [NoCall EXCEPT !.op = "format", !.text = Hello, !.style = style]
        /\ UNCHANGED <<yClass, yColorFormat, yStyles, yBuilt, yCustom, yEnabled>>

\* the names of the table `styles` of styles/base (part_010:202-216)
baseStyleNames ==
    {"text", "h1", "h2", "h3", "action", "label", "highlight", "value", "path",
     "date", "warn", "error", "strikethru"}

\* Object.getOwnPropertyNames(Object.getPrototypeOf(this)) of a LoggerLine
\* of part_009 (96-447) and of one of line.ts (48-314)
methodNames(version) ==
    {"constructor", "reqId", "sid", "emitter", "action", "clear", "elapsed",
     "level", "indent", "tab", "data", "comment", "stylize", "plain",
     "emitWithTime", "ewt", "emit", "partsAsString", "addStyleMethods"}
    \cup (IF version = "part_009"
          THEN {"isEmpty", "enable", "formatAsString", "addLevelPrefix",
                "addTimePrefix", "addReqId", "addSid", "addEmitter", "addAction",
                "addPlain", "addSuffix", "addElapsed", "unitState"}
          ELSE {"setLevelThreshold", "setLevel", "setInitialString"})

\* LoggerLine.addStyleMethods over the names of a table: throws at the
\* first public name that is a method of the line (no table of the model
\* has more than one)
addStyleMethods(names, version) ==
    LET reserved == {n \in names : n \in methodNames(version)
                                   /\ n \notin {"_elapsed", "_levelPrefix",
                                                "_timePrefix", "_suffix"}}
    IN  IF reserved # {}
        THEN [thrown |-> TRUE,
              out |-> <<"Cannot declare style with reserved name",
                        CHOOSE n \in reserved : TRUE>>]
        ELSE [thrown |-> FALSE, out |-> <<>>]

\* new LoggerLine(...): part_009 installs the styles of the logger's Style,
\* line.ts those of styles/base
NewLineY ==
    \E version \in {"part_009", "line.ts"} :
        /\ yClass = "Style" /\ yBuilt
        /\ yOut' = addStyleMethods(IF version = "part_009" THEN DOMAIN yStyles
                                   ELSE baseStyleNames, version)
        /\ yCall' = [NoCall EXCEPT !.op = "line", !.text = <<version>>]
        /\ UNCHANGED <<yClass, yColorFormat, yStyles, yBuilt, yCustom, yEnabled>>

NextY ==
    /\ UNCHANGED <<varsS, varsM, varsMgr, varsF, varsT, varsR, varsP>>
    /\ \/ EnableY
       \/ AddStyleY
       \/ FormatY
       \/ NewLineY

(***************************************************************************)
(* SpecK: the Logger of part_005 over the LoggerLine of part_010, made     *)
(* with keepLines: the level methods, skip, tab, the style methods, emit   *)
(* and clearLines.                                                         *)
(***************************************************************************)
InitK ==
    /\ \E a \in CtorLevels :
        /\ loggerLevel = setLevel(logLevel.info, a)
        /\ answer = IF NamedLevel(a) = "" THEN NoAnswer
                    ELSE [NoAnswer EXCEPT !.want = NamedLevel(a)]
    /\ \E o \in ShowOpts :
        /\ levelPrefix = o.level
        /\ timePrefix = o.time
        /\ colorFormat = o.color
    /\ keepLines = TRUE
    /\ lines = <<>> /\ console = <<>> /\ buffer = <<>>
    /\ line = NewLine
    /\ err = NoError
    /\ handle = FALSE
    /\ asked = NothingAsked
    /\ due = <<>>
    /\ last = "new"
    /\ NoM /\ NoMgr /\ NewFileTransport /\ NoStyle /\ NoTimer /\ NoStart
    /\ NoPending

NextK ==
    /\ UNCHANGED <<varsM, varsMgr, varsF, varsY, varsT, varsR, varsP>>
    /\ \/ LevelCall10
       \/ Skip10
       \/ Tab10
       \/ Stylize10
       \/ Emit10
       \/ ClearLines

(***************************************************************************)
(* SpecT: an Elapsed timer and its clock                                   *)
(***************************************************************************)
InitT ==
    /\ \E now \in {0, Tick} : NewElapsed(now)
    /\ NoLogger /\ NoM /\ NoMgr /\ NewFileTransport /\ NoStyle /\ NoStart
    /\ NoPending

\* the clock moves on
AdvanceT ==
    \E d \in 1..2 :
        /\ tNow + d * Tick <= MaxClock * Tick
        /\ tNow' = tNow + d * Tick
        /\ UNCHANGED <<tStart, tLast, tCall, tRes>>

MeasureT ==
    LET m == measure(tNow, tStart, tLast)
    IN  /\ tCall' = "measure"
        /\ tRes' = [total |-> m.total, interval |-> m.interval]
        /\ tLast' = m.lastM
        /\ UNCHANGED <<tNow, tStart>>

ResetIntervalT ==
    LET r == resetInterval(tNow, tStart)
    IN  /\ tCall' = "resetInterval"
        /\ tStart' = r.start
        /\ tLast' = r.lastM
        /\ UNCHANGED <<tNow, tRes>>

ResetAllT ==
    LET r == resetAll(tNow)
    IN  /\ tCall' = "resetAll"
        /\ tStart' = r.start
        /\ tLast' = r.lastM
        /\ UNCHANGED <<tNow, tRes>>

NextT ==
    /\ UNCHANGED <<varsS, varsM, varsMgr, varsF, varsY, varsR, varsP>>
    /\ \/ AdvanceT
       \/ MeasureT
       \/ ResetIntervalT
       \/ ResetAllT

(***************************************************************************)
(* SpecR: LogManager.start() step by step, and LogManager.logger()         *)
(***************************************************************************)
\* the transport that addTransport({ name: 'console' }) makes
ConsoleT == 1

\* the lists of transports a manager is configured with
TransportLists == {<<>>, <<1>>, <<2>>, <<1, 2>>}

\* a LineTransportOpts of the caller, and the one logger() builds from the
\* manager's defaults; getTransportByName('console') is 0 (undefined) when
\* no transport has that name
CallerOpts == [transport |-> 2, levelThreshold |-> logLevel.error, from |-> "caller"]
DefaultOpts ==
    [transport |-> IF InList(ConsoleT) THEN ConsoleT ELSE 0,
     levelThreshold |-> mgrLevel, from |-> "defaults"]

\* the options.transportOpts logger() is called with
TransportOptsArgs ==
    {[op |-> "logger", given |-> FALSE, list |-> <<>>],
     [op |-> "logger", given |-> TRUE, list |-> <<>>],
     [op |-> "logger", given |-> TRUE, list |-> <<CallerOpts>>]}

isNonEmptyArray(a) == a.given /\ Len(a.list) > 0

\* new Logger(opts) of part_004: throws without transports
NewLogger(a) ==
    IF ~isNonEmptyArray(a)
    THEN [thrown |-> TRUE, transportOpts |-> <<>>]
    ELSE [thrown |-> FALSE, transportOpts |-> a.list]

\* LogManager.logger(emitter, options)
logger(a) ==
    NewLogger(IF isNonEmptyArray(a)
              THEN [op |-> "logger", given |-> TRUE, list |-> <<DefaultOpts>>]
              ELSE a)

InitR ==
    /\ mgrVer \in {1, 2}
    /\ sAutoRun \in (IF mgrVer = 1 THEN {TRUE} ELSE BOOLEAN)
    /\ mgrTransports \in TransportLists
    /\ running = FALSE
    /\ allTransportsReady = TRUE
    /\ mgrLevel = IF mgrVer = 1 THEN 0 ELSE logLevel.info
    /\ queue = <<>>
    /\ ready = [t \in Transports |-> FALSE]
    /\ meetsUndefined = TRUE
    /\ sent = [t \in Transports |-> <<>>]
    /\ logged = 0
    /\ flushLog = <<>>
    /\ mgrLast = "new"
    /\ mgrArg = 0
    /\ sDepth = 0
    /\ sPc = "idle"
    /\ sOpens = [t \in Transports |-> 0]
    /\ gCall = NoLoggerCall
    /\ gOut = NoLoggerOut
    /\ NoLogger /\ NoM /\ NewFileTransport /\ NoStyle /\ NoTimer /\ NoPending

\* whether start() starts the transports: always in the first class, with
\* autoRun in the second
StartsTransports == mgrVer = 1 \/ sAutoRun

\* the body of start() on a manager that is not running, up to the promise
\* of the jobs: the console transport is added when there is none, and
\* open() of every transport is invoked
enterStart ==
    LET list == IF Len(mgrTransports) = 0 THEN <<ConsoleT>> ELSE mgrTransports
    IN  /\ sDepth' = sDepth + 1
        /\ sPc' = "jobs"
        /\ IF StartsTransports
           THEN /\ mgrTransports' = list
                /\ sOpens' = [t \in Transports |->
                                 IF \E i \in 1..Len(list) : list[i] = t
                                 THEN sOpens[t] + 1 ELSE sOpens[t]]
           ELSE UNCHANGED <<mgrTransports, sOpens>>

\* start() called on a manager that is not running
StartR ==
    /\ sDepth = 0 /\ ~running
    /\ enterStart
    /\ mgrLast' = "start"
    /\ UNCHANGED <<mgrOpts, running, mgrLevel, queue, ready, sent, logged,
                   flushLog, mgrArg, sAutoRun, gCall, gOut>>

\* 'logger.start.success' logged for each of n started transports
RECURSIVE logStarted(_, _, _)
logStarted(n, q, lg) ==
    IF n = 0 THEN [queue |-> q, logged |-> lg]
    ELSE logStarted(n - 1,
                    Append(q, [id |-> lg + 1, level |-> logLevel.info,
                               lg |-> 0, emitter |-> "logger"]),
                    lg + 1)

\* the jobs settle: open() of every transport has resolved; the second
\* class logs each success (the manager is not running: it is queued)
SettleR ==
    /\ sPc = "jobs"
    /\ sPc' = "then"
    /\ IF StartsTransports
       THEN /\ ready' = [t \in Transports |-> ready[t] \/ InList(t)]
            /\ IF mgrVer = 2
               THEN LET r == logStarted(Len(mgrTransports), queue, logged)
                    IN  queue' = r.queue /\ logged' = r.logged
               ELSE UNCHANGED <<queue, logged>>
       ELSE UNCHANGED <<ready, queue, logged>>
    /\ mgrLast' = "settled"
    /\ UNCHANGED <<mgrOpts, running, mgrLevel, mgrTransports, sent, flushLog,
                   mgrArg, sAutoRun, sDepth, sOpens, gCall, gOut>>

\* .then(() => this.start()): on a running manager start() returns at once
\* and the next handler sets _running and flushes the queue; on a manager
\* that is not running the body of start() is entered again
ThenR ==
    /\ sPc = "then"
    /\ running \/ sDepth < MaxStarts
    /\ IF running
       THEN /\ sDepth' = 0
            /\ sPc' = "done"
            /\ running' = TRUE
            /\ LET r == IF mgrVer = 1
                        THEN flushQueue1(TRUE, queue, sent, <<>>)
                        ELSE flushQueue2(TRUE, queue, sent, <<>>)
               IN  queue' = r.queue /\ sent' = r.sent /\ flushLog' = r.log
            /\ UNCHANGED <<mgrTransports, sOpens>>
       ELSE /\ enterStart
            /\ UNCHANGED <<running, queue, sent, flushLog>>
    /\ mgrLast' = "then"
    /\ UNCHANGED <<mgrOpts, mgrLevel, ready, logged, mgrArg, sAutoRun, gCall,
                   gOut>>

\* logger(emitter, options) of the second class
LoggerR ==
    \E a \in TransportOptsArgs :
        /\ mgrVer = 2
        /\ gCall' = a
        /\ gOut' = logger(a)
        /\ UNCHANGED <<varsMgr, sAutoRun, sDepth, sPc, sOpens>>

NextR ==
    /\ UNCHANGED <<varsS, varsM, varsF, varsY, varsT, varsP>>
    /\ \/ StartR
       \/ SettleR
       \/ ThenR
       \/ LoggerR

(***************************************************************************)
(* SpecP: the Logger of logger.ts: fragments chained, then a level method  *)
(***************************************************************************)
InitP ==
    /\ \E a \in CtorLevels : loggerLevel = setLevel(logLevel.info, a)
    /\ \E o \in ShowOpts :
           levelPrefix = o.level /\ timePrefix = o.time /\ colorFormat = o.color
    /\ keepLines \in BOOLEAN
    /\ lines = <<>> /\ console = <<>> /\ buffer = <<>>
    /\ line = NewLine
    /\ due = <<>>
    /\ answer = NoAnswer
    /\ err = NoError
    /\ handle = FALSE
    /\ asked = NothingAsked
    /\ last = "new"
    /\ NoPending
    /\ NoM /\ NoMgr /\ NewFileTransport /\ NoStyle /\ NoTimer /\ NoStart

\* what a call on the pending state leaves alone
restP == <<loggerLevel, levelPrefix, timePrefix, keepLines, colorFormat, buffer,
           line, due, answer, err, handle, asked>>

\* Logger.stylize(style, ...args), by way of a style method
StylizeP ==
    \E args \in FragArgs :
        /\ Len(pre) < MaxParts
        /\ pre' = Append(pre, format(colorFormat, Join(args), "text"))
        /\ last' = "frag"
        /\ UNCHANGED <<restP, lines, console, showElapsed>>

\* Logger.tab(n)
TabP ==
    \E n \in 1..MaxTab :
        /\ Len(pre) < MaxParts
        /\ pre' = Append(pre, Repeat(" ", n * tabSize - 1))
        /\ last' = "frag"
        /\ UNCHANGED <<restP, lines, console, showElapsed>>

\* Logger.elapsed(): _showElapsed is never true, no throw
ElapsedP ==
    /\ showElapsed' = TRUE
    /\ last' = "frag"
    /\ UNCHANGED <<restP, lines, console, pre>>

\* Logger.addPrefix(level)
addPrefix(p, lv) ==
    LET p1 == IF levelPrefix
              THEN <<format(colorFormat,
                            <<"[">> \o Upper[getLogLevelString(lv)] \o <<"]">>,
                            "_levelPrefix")>> \o p
              ELSE p
    IN  IF timePrefix
        THEN <<format(colorFormat, TimeStr, "_timePrefix")>> \o p1
        ELSE p1

\* the line Logger.output writes: with keepLines the elapsed times are
\* added on _showElapsed, on the console on showElapsed
outputText(p, args) ==
    IF keepLines THEN Join(p \o args)
    ELSE Join(p \o args \o (IF showElapsed THEN <<ElapsedStr>> ELSE <<>>))

\* Logger.clearLine
clearLine == pre' = <<>> /\ showElapsed' = FALSE

\* Logger.trace .. Logger.error: at or above the threshold addPrefix,
\* output and clearLine; below it nothing is done
LevelP ==
    \E lv \in CallLevels, args \in EmitArgs :
        /\ last' = "level"
        /\ IF loggerLevel <= lv
           THEN /\ Len(lines) + Len(console) < MaxLines
                /\ IF keepLines
                   THEN /\ lines' = Append(lines, outputText(addPrefix(pre, lv), args))
                        /\ console' = console
                   ELSE /\ console' = Append(console, outputText(addPrefix(pre, lv), args))
                        /\ lines' = lines
                /\ clearLine
           ELSE UNCHANGED <<lines, console, pre, showElapsed>>
        /\ UNCHANGED restP

NextP ==
    /\ UNCHANGED <<varsM, varsMgr, varsF, varsY, varsT, varsR>>
    /\ \/ StylizeP
       \/ TabP
       \/ ElapsedP
       \/ LevelP

vars == <<varsS, varsM, varsMgr, varsF, varsY, varsT, varsR, varsP>>

SpecP == InitP /\ [][NextP]_vars

SpecR == InitR /\ [][NextR]_vars

SpecT == InitT /\ [][NextT]_vars

SpecK == InitK /\ [][NextK]_vars

SpecY == InitY /\ [][NextY]_vars

SpecF == InitF /\ [][NextF]_vars

SpecMgr == InitMgr /\ [][NextMgr]_vars

SpecM == InitM /\ [][NextM]_vars

Spec9 == InitS /\ [][Next9]_vars

SpecL == InitS /\ [][NextL]_vars

Spec10 == InitS /\ [][Next10]_vars

(***************************************************************************)
(* Level gating                                                            *)
(***************************************************************************)
\* the levels from the least to the most severe
LevelOrder == <<"trace", "debug", "verbose", "info", "warn", "error">>

Rank(name) == CHOOSE i \in 1..Len(LevelOrder) : LevelOrder[i] = name

\* C4: isEnabledFor(L) answers true exactly when the rank of L is at least the
\* rank of the threshold the logger was constructed with or last set to;
\* with the default threshold info, that is for info, warn and error only.
C4_LevelGating ==
    answer.made /\ NamedLevel(answer.arg) # ""
        => (answer.res <=> Rank(NamedLevel(answer.arg)) >= Rank(answer.at))

\* a query for error answered true after the threshold was set to warn
C4_Witness ==
    /\ answer.made /\ answer.res
    /\ answer.at = "warn"
    /\ NamedLevel(answer.arg) = "error"

(***************************************************************************)
(* Buffer fidelity                                                         *)
(***************************************************************************)
\* C7: with lines kept in memory, the kept lines are exactly the texts due
\* for the enabled lines emitted so far, one entry each, in emit order
\* (compared as plain text, with colour off).
C7_BufferFidelity ==
    keepLines /\ ~colorFormat => lines = due

(***************************************************************************)
(* Suppressed lines                                                        *)
(***************************************************************************)
\* the line the caller holds was started below the threshold of that moment
Suppressed == asked.lvl < asked.thr

\* C3: a line started below the threshold writes nothing, whatever fragments
\* and emit arguments follow and whatever the threshold becomes later: every
\* step that adds to the kept lines, the buffer or the console belongs to an
\* open line that met the threshold, and no step on a suppressed line throws.
C3_SuppressedSilent ==
    [][/\ (buffer' # buffer \/ console' # console \/ lines' # lines)
            => asked.open /\ ~Suppressed
       /\ asked.open /\ Suppressed => ~err'.thrown]_vars

\* a suppressed line with two fragments was emitted with an argument's worth
\* of text, nothing was written, and the threshold was lowered afterwards
C3_Witness ==
    /\ handle /\ ~asked.open /\ Suppressed
    /\ Len(asked.req) = 2
    /\ loggerLevel <= asked.lvl
    /\ buffer = <<>> /\ console = <<>>
    /\ ~err.thrown

\* the line is Idle: nothing of it is left
Idle(l) == l.parts = <<>> /\ l.suffix = <<>> /\ ~l.enabled /\ ~l.showElapsed

\* C5: when emit returns the line is Idle, whether or not it was enabled
C5_IdleAfterEmit ==
    [][asked.open /\ ~asked'.open => Idle(line')]_vars

(***************************************************************************)
(* The multi-transport line                                                *)
(***************************************************************************)
\* C2: when a level method has started a line at level L, the enabled flag
\* of each transport's line is (L >= the threshold of that transport).
C2_EnabledPerTransport ==
    [][last' = "level"
        => \A t \in Transports : tls'[t].enabled = (asked'.lvl >= tls'[t].thr)]_vars

\* C6: a fragment call (plain, stylize, indent, tab, data) leaves the
\* fragments, the suffix and the indent of a Disabled line, one whose level
\* is below its threshold, as they were.
C6_DisabledFrame ==
    [][last' = "frag"
        => \A t \in Transports :
               tls[t].level < tls[t].thr
                   => /\ tls'[t].parts = tls[t].parts
                      /\ tls'[t].suffix = tls[t].suffix
                      /\ tls'[t].indent = tls[t].indent]_vars

(***************************************************************************)
(* One open line                                                           *)
(***************************************************************************)
\* C1: a level method called while an enabled line with content is open
\* throws, and the message of the error includes the content of that line.
C1_SecondLevelCallThrows ==
    [][last' = "level" /\ asked.open /\ ~Suppressed /\ asked.req # <<>>
        => /\ err'.thrown
           /\ \A i \in 1..Len(asked.req) : Includes(err'.msg, asked.req[i])]_vars

(***************************************************************************)
(* The queue of the LogManager                                             *)
(***************************************************************************)
\* C8: no queued message is written to a transport while the manager is not
\* running, nor, with allTransportsReady true, while a configured transport
\* is not ready; a message logged in the meantime stays in the queue.
C8_HeldUntilReady ==
    [][/\ sent' # sent =>
            /\ running'
            /\ (allTransportsReady => checkIfAllTransportsAreReady)
       /\ (/\ mgrLast' = "log" /\ logged' > logged
           /\ (~running \/ (allTransportsReady /\ ~checkIfAllTransportsAreReady)))
          => /\ Len(queue') = Len(queue) + 1
             /\ SubSeq(queue', 1, Len(queue)) = queue]_vars

Increasing(s) == \A i, j \in 1..Len(s) : i < j => s[i] < s[j]

\* C9: the queue is FIFO and lossless: every transport is given messages in
\* the order logParams took them, each at most once; the queue holds the
\* latest messages in that order; and a flush made while the manager runs
\* and every transport is ready leaves the queue empty.
C9_FifoLossless ==
    [][/\ \A t \in Transports : Increasing(sent'[t])
       /\ \A i \in 1..Len(queue') : queue'[i].id = logged' - Len(queue') + i
       /\ (/\ mgrLast' \in {"log", "start"}
           /\ running' /\ Len(mgrTransports) > 0
           /\ checkIfAllTransportsAreReady)
          => queue' = <<>>]_vars

\* C10: a flushed message is written to a transport exactly when its level
\* is at or above that transport's own threshold, whatever the order of the
\* transports and whatever the other transports did with it.
C10_OwnThreshold ==
    \A i \in 1..Len(flushLog) : \A k \in 1..Len(mgrTransports) :
        LET t == mgrTransports[k]
        IN  (t \in flushLog[i].to) <=> (flushLog[i].msg.level >= levelThreshold(t))

(***************************************************************************)
(* Starting the transports                                                 *)
(***************************************************************************)
\* C11: when open() of a transport fails during start, that transport and no
\* other leaves the list, the other transports keep their state, nothing is
\* thrown, and the manager records a message of level warn on its own path.
C11_OpenFailureRemoves ==
    [][mgrLast' = "openfail" =>
        /\ mgrTransports' = SelectSeq(mgrTransports, LAMBDA u : u # mgrArg')
        /\ \A u \in Transports \ {mgrArg'} : ready'[u] = ready[u]
        /\ ~err'.thrown
        /\ logged' = logged + 1
        /\ Len(queue') > 0
        /\ queue'[Len(queue')].emitter = "logger"
        /\ queue'[Len(queue')].level = logLevel.warn]_vars

(***************************************************************************)
(* The file transport                                                      *)
(***************************************************************************)
Range(q) == {q[i] : i \in 1..Len(q)}

\* C12: a write() made while there is no stream, while the stream is
\* backpressured or after a stream error does not throw and puts the line in
\* the buffer; a drain of the open stream hands the stream the first line
\* held; and every line is either in the stream or in the buffer.
C12_HeldNotThrown ==
    [][/\ fLast' = "write" =>
            /\ ~fThrown'
            /\ (~fStream \/ ~fWritable) =>
                    fBuffer' = Append(fBuffer, fCalls') /\ fOut' = fOut
       /\ (fLast' = "drain" /\ Len(fBuffer) > 0) => Len(fOut') > Len(fOut)
       /\ \A n \in 1..fCalls' : n \in Range(fOut') \cup Range(fBuffer')]_vars

\* C13: for a file transport that was open at every write(), the lines the
\* stream was given followed by the lines still held are the lines in the
\* order of the write() calls, each once.
C13_FileOrder ==
    ~fHeld => fOut \o fBuffer = [i \in 1..fCalls |-> i]

\* a drain under renewed backpressure: some lines flushed, one still held
C13_Witness ==
    /\ fLast = "drain" /\ ~fHeld
    /\ Len(fOut) >= 2 /\ Len(fBuffer) >= 1

\* C14: ready() is true exactly when the last lifecycle call completed was a
\* successful open().
C14_ReadyLifecycle == fBReady = fOpened

(***************************************************************************)
(* Invalid levels                                                          *)
(***************************************************************************)
\* C15: setLevel with an argument that is neither a level name, nor a rank,
\* nor a rank written as a string leaves the threshold and every other field
\* of the state as they were and does not throw.
C15_InvalidLevelNoOp ==
    [][(last' = "set" /\ NamedLevel(answer'.set) = "") =>
        /\ loggerLevel' = loggerLevel
        /\ ~err'.thrown
        /\ UNCHANGED <<levelPrefix, timePrefix, keepLines, colorFormat, lines,
                       line>>]_vars

\* an invalid argument met a threshold other than the default
C15_Witness ==
    /\ last = "set" /\ NamedLevel(answer.set) = ""
    /\ answer.set.name = "bogus"
    /\ loggerLevel = logLevel.error

\* C16: Logger.setLevelThreshold with an invalid value leaves the threshold
\* and the enabled flag of every transport's line as they were and does not
\* throw.
C16_InvalidThresholdNoOp ==
    [][(last' = "set" /\ NamedLevel(answer'.set) = "") =>
        /\ \A t \in Transports :
              /\ tls'[t].thr = tls[t].thr
              /\ tls'[t].enabled = tls[t].enabled
        /\ ~err'.thrown]_vars

(***************************************************************************)
(* Indentation                                                             *)
(***************************************************************************)
\* the string str begins with exactly k spaces
LeadingSpaces(str, k) ==
    /\ Len(str) > k
    /\ \A i \in 1..k : str[i] = " "
    /\ str[k + 1] # " "

\* C17: on an enabled line, tab(n) as the first call, then a fragment, then
\* emit write a line that begins with exactly n * tabSize spaces followed by
\* the fragment; here for the line of each transport that shows no prefix.
C17_TabIndent ==
    [][(/\ last' = "emit" /\ asked.open /\ Len(asked.req) = 1
        /\ \A t \in Transports : tls[t].enabled /\ Len(tls[t].parts) > 0) =>
        \A t \in Transports : ~tls[t].show =>
            /\ Len(written'[t]) = Len(written[t]) + 1
            /\ LeadingSpaces(written'[t][Len(written'[t])],
                             Len(asked.req[1]) + 1)]_vars

\* C18: the indent belongs to the line tab() was called on: when that line
\* has been emitted the stored indent is empty, and a line started without
\* tab() is written without leading spaces.
C18_IndentPerLine ==
    [][(last' = "emit" /\ asked.open /\ ~Suppressed) =>
        /\ line'.tab = <<>>
        /\ (/\ Len(asked.req) > 0 /\ asked.req[1] # <<>>
            /\ asked.req[1][1] # " "
            /\ ~levelPrefix /\ timePrefix = FALSE) =>
               LET out == IF keepLines THEN buffer' ELSE console'
               IN  Len(out) > 0 /\ out[Len(out)][1] # " "]_vars

\* C19: an enabled line emitted with the level prefix configured is written
\* beginning with the level tag padded to 9 characters, followed by the
\* fragments in the order they were appended; here for the line of each
\* transport that shows the level (the transports of the runs show no time).
C19_LevelTagFirst ==
    [][last' = "emit" =>
        \A t \in Transports :
            (/\ tls[t].enabled /\ tls[t].show
             /\ Len(written'[t]) = Len(written[t]) + 1) =>
                LET out == written'[t][Len(written'[t])]
                    want == Join(<<LevelTag(tls[t].level)>> \o tls[t].parts)
                IN  Len(out) >= Len(want) /\ SubSeq(out, 1, Len(want)) = want]_vars

\* C20: the trailing arguments of emit appear once in the emitted line, not
\* repeated, and after every fragment appended before the emit.
C20_TrailingArgsOnce ==
    [][(last' = "emit" /\ line.enabled) =>
        LET out == IF keepLines THEN buffer'[Len(buffer')]
                   ELSE console'[Len(console')]
            at == {i \in 1..Len(out) : out[i] = "last"}
        IN  /\ Cardinality(at) <= 1
            /\ \A i \in at : \A j \in 1..Len(out) :
                   out[j] \in {"first", "second"} => j < i]_vars

\* the number of tab characters a string begins with
LeadingTabs(str) ==
    CHOOSE k \in 0..Len(str) :
        /\ \A i \in 1..k : str[i] = "\t"
        /\ (k = Len(str) \/ str[k + 1] # "\t")

\* the level method without arguments, then tab(k) when k > 0, then
\* text(m, others), for the first argument k tabs followed by m
TabThenText(l, lv, args) ==
    LET k == LeadingTabs(args[1])
        m == Slice(args[1], k)
        l0 == initLine10(l, lv, <<>>)
        l1 == IF k > 0 THEN tab10(l0, k) ELSE l0
    IN  stylize10(l1, "text", <<m>> \o Tail(args))

Skipped == asked.open /\ asked.lvl = skipLevel

C23_ElapsedIffRequested ==
    [][last' = "emit" =>
        /\ \A t \in Transports :
              (tls[t].enabled /\ Len(written'[t]) = Len(written[t]) + 1) =>
                  LET out == written'[t][Len(written'[t])]
                  IN  elapsedM <=> (Len(out) > 0 /\ <<out[Len(out)]>> = ElapsedStr)
        /\ ~elapsedM']_vars

\* C24: the comments of a line are written after its fragments and the
\* trailing arguments of emit, and a line without comments gets no suffix
\* fragment, hence no trailing separator; here for the line written to each
\* transport that shows no prefix (no transport of the runs has a timer).
C24_CommentsLast ==
    [][last' = "emit" =>
        \A t \in Transports :
            (/\ tls[t].enabled /\ ~tls[t].show
             /\ Len(written'[t]) = Len(written[t]) + 1) =>
                \E args \in EmitArgs :
                    LET frags == tls[t].parts \o
                                 (IF Len(args) > 0 THEN <<Join(args)>> ELSE <<>>)
                        cmts == IF Len(tls[t].suffix) > 0
                                THEN <<Join(tls[t].suffix)>> ELSE <<>>
                    IN  written'[t][Len(written'[t])] = Join(frags \o cmts)]_vars

\* the last call was format, on a style object that colours its output
ColouredFormat ==
    /\ yCall.op = "format"
    /\ (yClass = "Style" => yColorFormat)
    /\ lookup(yStyles, yCall.style).found

\* the start sequences of the valid colours of a rule, the text, and one
\* reset for each of them
Wrapped(def, s) ==
    LET n == (IF isValidColor(def.fg) THEN 1 ELSE 0)
             + (IF isValidColor(def.bg) THEN 1 ELSE 0)
    IN  (IF isValidColor(def.fg) THEN <<Esc(def.fg)>> ELSE <<>>)
        \o (IF isValidColor(def.bg) THEN <<Esc(def.bg + 10)>> ELSE <<>>)
        \o s \o [i \in 1..n |-> Reset]

\* C25: with colour formatting on, format gives the start sequence of the
\* foreground, then that of the background plus 10, the text, and one
\* reset per colour applied; a rule without a valid colour gives the plain
\* text, and 'Hello' under { fg: green } gives ESC[92m Hello ESC[0m.
C25_ColourWrapping ==
    ColouredFormat =>
        /\ ~yOut.thrown
        /\ yOut.out = Wrapped(lookup(yStyles, yCall.style).def, yCall.text)
        /\ yCall.style = ByDef(StyleDef(Color.green, 0)) =>
               yOut.out = <<"ESC[92m", "Hello", "ESC[0m">>
        /\ yCall.style = ByDef(StyleDef(0, 0)) => yOut.out = Hello

\* 'Hello' formatted under the default style action: two colours, two resets
C25_Witness ==
    /\ ColouredFormat /\ yClass = "Style"
    /\ yCall.style = ByName("action") /\ yCustom = NoTable
    /\ yOut.out = <<"ESC[30m", "ESC[103m", "Hello", "ESC[0m", "ESC[0m">>

\* C26: on a style object on which enable(true) was never called, format
\* returns the plain text, without escape sequences, under every style name
\* and every rule, a new ColorStyle formatting 'Hello' under 'text' included.
C26_PlainUntilEnabled ==
    (yCall.op = "format" /\ ~yEnabled) =>
        (~yOut.thrown /\ yOut.out = yCall.text)

\* C27: enable(true) leaves colour formatting on however often it is
\* called, and enable(false) turns it off: colorFormat is false afterwards.
C27_EnableFalseDisables ==
    [][yCall'.op = "enable" => (yColorFormat' = yCall'.val)]_vars

\* C28: format under a style name that is not in the table returns the
\* plain text and does not throw, with colour formatting on or off.
C28_UnknownStylePlain ==
    (yCall.op = "format" /\ ~lookup(yStyles, yCall.style).found) =>
        (~yOut.thrown /\ yOut.out = yCall.text)

\* C29: a table constructed with custom styles holds every default style
\* the custom styles do not override and every custom style, the custom
\* rule winning where the names meet.
C29_CustomMergedOverDefaults ==
    LET builtin == IF yClass = "Style" THEN defaultStyles ELSE colorStyles
    IN  (yBuilt /\ yCall.op = "new") =>
            /\ \A n \in DOMAIN yCustom :
                  n \in DOMAIN yStyles /\ yStyles[n] = yCustom[n]
            /\ \A n \in DOMAIN builtin \ DOMAIN yCustom :
                  n \in DOMAIN yStyles /\ yStyles[n] = builtin[n]

\* C30: clearLines leaves the kept lines empty whatever was emitted before,
\* throws nothing, and called again, or with no line kept, leaves them empty.
C30_ClearLinesEmpties ==
    [][last' = "clear" => (lines' = <<>> /\ err' = err)]_vars

\* a line was emitted and kept, and clearLines was called after it
C30_Witness ==
    /\ last = "clear" /\ lines = <<>>
    /\ ~asked.open /\ Len(asked.req) > 0 /\ asked.lvl >= asked.thr

\* C31: an emitted line goes where keepLines at the moment of the emit says:
\* to the kept lines and not the console when it is true, to the console and
\* not the kept lines when it is false, setKeepLines(false) after
\* construction included.
C31_RoutedByKeepLines ==
    [][(last' = "emit" /\ line.enabled) =>
        IF keepLines
        THEN Len(lines') = Len(lines) + 1 /\ console' = console
        ELSE Len(console') = Len(console) + 1 /\ lines' = lines]_vars

\* r is the reading of the clock difference d: d / 1000
Reads(r, d) == r * 1000 = d

\* a step of measure(): the clock stands still while the call is made
Measured == tCall' = "measure" /\ tNow' = tNow

\* C32: measure() returns as total the time from the start to now and as
\* interval the time from the previous measure or reset to now (each read
\* as the clock difference over 1000), and now becomes the origin of the
\* next interval; so successive measures report an accumulating total and
\* the time between them.
C32_MeasureReadings ==
    [][Measured =>
        /\ Reads(tRes'.total, tNow - tStart)
        /\ Reads(tRes'.interval, tNow - tLast)
        /\ tLast' = tNow
        /\ tStart' = tStart]_vars

\* a second measure, later than the first, with a larger total and an
\* interval shorter than the total
C32_Witness ==
    /\ tCall = "measure"
    /\ tLast = tNow
    /\ tRes.interval > 0
    /\ tRes.total > tRes.interval

\* C33: resetInterval() restarts only the origin of the interval and leaves
\* the start time, hence the total, as it was; resetAll() restarts both, so
\* the measure that follows a resetAll reports a total equal to its
\* interval, the time since the reset.
C33_ResetFrames ==
    [][/\ (tCall' = "resetInterval" /\ tNow' = tNow) =>
              (tStart' = tStart /\ tLast' = tNow /\ tRes' = tRes)
       /\ (tCall' = "resetAll" /\ tNow' = tNow) =>
              (tStart' = tNow /\ tLast' = tNow /\ tRes' = tRes)
       /\ (Measured /\ tCall = "resetAll") =>
              (tRes'.total = tRes'.interval
               /\ Reads(tRes'.total, tNow - tStart))
       /\ (Measured /\ tCall = "resetInterval") =>
              (Reads(tRes'.total, tNow - tStart)
               /\ Reads(tRes'.interval, tNow - tLast))]_vars

\* a measure that follows a resetAll made later than the construction:
\* the start is the time of the reset and the total equals the interval
C33_Witness ==
    /\ tCall = "measure"
    /\ tStart > Tick
    /\ tRes.total > 0
    /\ tRes.total = tRes.interval
    /\ Reads(tRes.total, tNow - tStart)

\* C34: logger(emitter, options) returns a Logger wired to the caller's
\* transportOpts when a non-empty list is supplied, and to the manager's
\* default console transport with the manager's default threshold when none
\* is supplied; the construction of the Logger never throws for lack of
\* transports.
C34_LoggerWired ==
    gCall.op = "logger" =>
        /\ ~gOut.thrown
        /\ IF isNonEmptyArray(gCall)
           THEN gOut.transportOpts = gCall.list
           ELSE /\ Len(gOut.transportOpts) = 1
                /\ gOut.transportOpts[1].from = "defaults"
                /\ gOut.transportOpts[1].levelThreshold = mgrLevel

\* C35: start() on a manager that is not running terminates: open() of each
\* configured transport is invoked exactly once, then running becomes true
\* and the queue is flushed; start() does not re-enter itself.
C35_StartOnce ==
    /\ sDepth <= 1
    /\ \A t \in Transports : sOpens[t] <= 1
    /\ mgrLast = "then" => (running /\ sPc = "done" /\ Len(queue) = 0)

\* how often s occurs in t
Occurrences(t, s) ==
    Cardinality({i \in 0..(Len(t) - Len(s)) : SubSeq(t, i + 1, i + Len(s)) = s})

\* the level prefixes and the time prefixes in a written line
LevelPrefixes(t) ==
    Occurrences(t, LevelTag(logLevel.debug)) + Occurrences(t, LevelTag(logLevel.info))
        + Occurrences(t, LevelTag(logLevel.error))
TimePrefixes(t) == Occurrences(t, TimeStr)

\* the line the last emit delivered
Delivered == IF keepLines THEN buffer[Len(buffer)] ELSE console[Len(console)]

\* C36: formatAsString() is read-only: it leaves the fragments of the line
\* as they are and returns the same string on a second call; so a line
\* delivered through a transport whose write() calls formatAsString has
\* the level prefix and the time prefix exactly once each.
C36_FormatReadOnly ==
    /\ line.enabled =>
           /\ formatted9(line).parts = line.parts
           /\ formatAsString9(formatted9(line)) = formatAsString9(line)
    /\ (last = "emit" /\ Len(IF keepLines THEN buffer ELSE console) > 0) =>
           /\ levelPrefix => LevelPrefixes(Delivered) = 1
           /\ timePrefix => TimePrefixes(Delivered) = 1

\* C37: a per-transport line is enabled only if a level has been assigned
\* to it since its construction or its last clear: it is not enabled right
\* after construction, and setLevelThreshold on an idle line does not
\* enable it on a default or stale level.
C37_EnabledOnlyWithLevel ==
    \A t \in Transports : tls[t].enabled => asked.open

\* C38: in the chain-then-level Logger, after any level method returns,
\* whether the line was output or suppressed by the threshold, the pending
\* state (the prefix fragments and the elapsed flag) is empty.
C38_PendingEmptyAfterLevel ==
    last = "level" => (pre = <<>> /\ showElapsed = FALSE)

\* C39: constructing a LoggerLine with the built-in default styles
\* succeeds: no default style name that is installed as a style method is
\* the name of a built-in LoggerLine method.
C39_DefaultStylesInstall ==
    (/\ yCall.op = "line"
     /\ yCall.text = <<"part_009">> => yStyles = defaultStyles) => ~yOut.thrown

====
